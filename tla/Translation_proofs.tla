-------------------------- MODULE Translation_proofs --------------------------
(***************************************************************************)
(* Proofs about Translation, for every explanation, cap, number of         *)
(* attempts and answer of Mayura.                                          *)
(*                                                                         *)
(* First the recursion behind FoldLeft and FlattenSeq, by induction; then  *)
(* the decoder: in an answer that lost no row marker, every body it finds  *)
(* is the body of the marker's own row, or what is left of it; then the    *)
(* invariant IInv, one lemma per conjunct, and the theorems.               *)
(***************************************************************************)
EXTENDS Translation, FiniteSetTheorems, WellFoundedInduction, TLAPS

-----------------------------------------------------------------------------
(* Induction.                                                               *)

(* A set of natural numbers that is not empty has a least element.          *)
LEMMA Least ==
    ASSUME NEW T \in SUBSET Nat, T # {}
    PROVE  \E m \in T : \A k \in T : m <= k
<1> DEFINE up == {1..n : n \in T}
<1>1. up \in SUBSET FiniteSubsetsOf(Nat) /\ up # {}
  <2>1. ASSUME NEW n \in T PROVE 1..n \in FiniteSubsetsOf(Nat)
    BY FS_Interval DEF FiniteSubsetsOf
  <2> QED
    BY <2>1
<1>2. PICK x \in up : \A y \in up : <<y, x>> \notin StrictSubsetOrdering(Nat)
  BY <1>1, FS_StrictSubsetOrderingWellFounded, WFMin
<1>3. PICK m \in T : x = 1..m
  BY <1>2
<1>4. ASSUME NEW k \in T, k < m PROVE FALSE
  <2>1. 1..k \in up /\ <<1..k, x>> \notin StrictSubsetOrdering(Nat)
    BY <1>2
  <2>2. 1..k \in SUBSET Nat /\ 1..m \in SUBSET Nat
    OBVIOUS
  <2>3. 1..k \subseteq 1..m /\ m \in 1..m /\ m \notin 1..k
    BY <1>4
  <2> QED
    BY <2>1, <2>2, <2>3, <1>3 DEF StrictSubsetOrdering
<1> QED
  BY <1>4

(* A set of numbers up to b with 0 in it, closed under successors, has all. *)
LEMMA Induction ==
    ASSUME NEW b \in Nat, NEW P, 0 \in P, \A n \in P : n \in Nat /\ n < b => n + 1 \in P
    PROVE  0..b \subseteq P
<1> DEFINE T == {n \in 0..b : n \notin P}
<1> SUFFICES ASSUME T # {} PROVE FALSE
  OBVIOUS
<1>1. T \in SUBSET Nat
  OBVIOUS
<1>2. PICK m \in T : \A k \in T : m <= k
  BY <1>1, Least
<1>3. m - 1 \in 0..b /\ m - 1 \notin T
  BY <1>2
<1> QED
  BY <1>3

-----------------------------------------------------------------------------
(* Flattening.  Join(s, g): g[i] joins the first i sequences of s.          *)

Join(s, g) == \A i \in DOMAIN g : g[i] = IF i = 1 THEN s[i] ELSE g[i - 1] \o s[i]

(* There is such a g.                                                       *)
LEMMA JoinExists ==
    ASSUME NEW T, NEW s \in Seq(Seq(T))
    PROVE  \E g \in [1..Len(s) -> Seq(T)] : Join(s, g)
<1> DEFINE P == {n \in 0..Len(s) : \E g \in [1..n -> Seq(T)] : Join(s, g)}
<1>1. 0 \in P
  <2> DEFINE e == [i \in 1..0 |-> <<>>]
  <2>1. e \in [1..0 -> Seq(T)] /\ Join(s, e)
    BY DEF Join
  <2>2. 0 \in 0..Len(s)
    OBVIOUS
  <2> QED
    BY <2>1, <2>2
<1>2. ASSUME NEW n \in P, n < Len(s) PROVE n + 1 \in P
  <2>1. PICK g \in [1..n -> Seq(T)] : Join(s, g)
    OBVIOUS
  <2>2. s[n + 1] \in Seq(T) /\ n + 1 \in 0..Len(s)
    BY <1>2
  <2> DEFINE last == IF n = 0 THEN s[1] ELSE g[n] \o s[n + 1]
             h == [i \in 1..(n + 1) |-> IF i = n + 1 THEN last ELSE g[i]]
  <2>3. last \in Seq(T)
    BY <2>1, <2>2
  <2>4. \A i \in 1..(n + 1) : i # n + 1 => i \in 1..n
    OBVIOUS
  <2>5. h \in [1..(n + 1) -> Seq(T)]
    BY <2>1, <2>3, <2>4
  <2>6. ASSUME NEW i \in 1..(n + 1)
        PROVE  h[i] = IF i = 1 THEN s[i] ELSE h[i - 1] \o s[i]
    <3>1. CASE i = n + 1 /\ n = 0
      BY <3>1
    <3>2. CASE i = n + 1 /\ n # 0
      <4>1. h[n + 1] = g[n] \o s[n + 1]
        BY <3>2
      <4>2. i - 1 = n /\ i # 1 /\ n \in 1..(n + 1) /\ n # n + 1
        BY <3>2
      <4>3. h[n] = g[n]
        BY <4>2
      <4> HIDE DEF h
      <4> QED
        BY <3>2, <4>1, <4>2, <4>3
    <3>3. CASE i # n + 1
      <4>1. i \in 1..n /\ h[i] = g[i]
        BY <3>3
      <4>2. i # 1 => h[i - 1] = g[i - 1]
        BY <4>1
      <4> QED
        BY <4>1, <4>2, <2>1 DEF Join
    <3> QED
      BY <3>1, <3>2, <3>3
  <2>7. Join(s, h)
    BY <2>5, <2>6 DEF Join
  <2> QED
    BY <2>2, <2>5, <2>7
<1>3. 0..Len(s) \subseteq P
  <2> HIDE DEF P
  <2> QED
    BY <1>1, <1>2, Induction
<1> QED
  BY <1>3

(* FlattenSeq joins all of them.                                            *)
LEMMA FlattenIsJoin ==
    ASSUME NEW T, NEW s \in Seq(Seq(T)), s # <<>>
    PROVE  \E g \in [1..Len(s) -> Seq(T)] : Join(s, g) /\ FlattenSeq(s) = g[Len(s)]
<1> DEFINE Def(g) == g = [i \in 1..Len(s) |-> IF i = 1 THEN s[i] ELSE g[i - 1] \o s[i]]
           G == CHOOSE g : Def(g)
<1>1. PICK g \in [1..Len(s) -> Seq(T)] : Join(s, g)
  BY JoinExists
<1>2. Def(g)
  BY <1>1 DEF Join
<1>3. Def(G)
  BY <1>2
<1>4. FlattenSeq(s) = G[Len(s)]
  BY Len(s) # 0 DEF FlattenSeq
(* Both satisfy the same recursion, so they are the same function.          *)
<1> DEFINE P == {n \in 0..Len(s) : \A i \in 1..n : G[i] = g[i]}
<1>5. 0 \in P
  <2> HIDE DEF G
  <2> QED
    OBVIOUS
<1>6. ASSUME NEW n \in P, n < Len(s) PROVE n + 1 \in P
  <2>1. n + 1 \in 1..Len(s) /\ (n + 1 # 1 => (n + 1) - 1 = n /\ n \in 1..n)
    BY <1>6
  <2>2. G[n + 1] = IF n + 1 = 1 THEN s[n + 1] ELSE G[(n + 1) - 1] \o s[n + 1]
    <3> HIDE DEF G
    <3> QED
      BY <1>3, <2>1
  <2>3. g[n + 1] = IF n + 1 = 1 THEN s[n + 1] ELSE g[(n + 1) - 1] \o s[n + 1]
    BY <1>2, <2>1
  <2> HIDE DEF G
  <2>4. \A i \in 1..n : G[i] = g[i]
    OBVIOUS
  <2>5. G[n + 1] = g[n + 1]
    BY <2>1, <2>2, <2>3, <2>4
  <2> QED
    BY <2>1, <2>4, <2>5
<1>7. 0..Len(s) \subseteq P
  <2> HIDE DEF P
  <2> QED
    BY <1>5, <1>6, Induction, SMTT(30)
<1> HIDE DEF G
<1>8. \A i \in 1..Len(s) : G[i] = g[i]
  <2>1. Len(s) \in 0..Len(s)
    OBVIOUS
  <2> QED
    BY <1>7, <2>1
<1>9. G = [i \in 1..Len(s) |-> G[i]] /\ g = [i \in 1..Len(s) |-> g[i]]
  BY <1>2, <1>3
<1>10. G = g
  BY <1>8, <1>9
<1> QED
  BY <1>1, <1>4, <1>10

(* Where the elements of a concatenation come from.                         *)
LEMMA ConcatIs ==
    ASSUME NEW T, NEW a \in Seq(T), NEW b \in Seq(T)
    PROVE  /\ Len(a \o b) = Len(a) + Len(b)
           /\ \A i \in DOMAIN (a \o b) :
                 /\ i \in DOMAIN a => (a \o b)[i] = a[i]
                 /\ i \notin DOMAIN a => /\ i - Len(a) \in DOMAIN b
                                        /\ (a \o b)[i] = b[i - Len(a)]
                 /\ i \in Nat /\ Len(a) \in Nat
  OBVIOUS

-----------------------------------------------------------------------------
(* Sums.                                                                    *)

(* The least and the greatest element of a set of numbers.                  *)
LEMMA MinOf ==
    ASSUME NEW T \in SUBSET Nat, T # {}
    PROVE  Min(T) \in T /\ \A k \in T : Min(T) <= k
BY Least DEF Min

LEMMA MaxOf ==
    ASSUME NEW T \in SUBSET Int, T # {}, NEW b \in Int, \A k \in T : k <= b
    PROVE  Max(T) \in T /\ \A k \in T : k <= Max(T)
<1> DEFINE U == {b - k : k \in T}
<1>1. U \in SUBSET Nat /\ U # {}
  <2>1. \A k \in T : k \in Int /\ k <= b /\ b - k \in Nat
    OBVIOUS
  <2>2. PICK k \in T : TRUE
    OBVIOUS
  <2>3. b - k \in U
    OBVIOUS
  <2> QED
    BY <2>1, <2>3
<1>2. PICK u \in U : \A k \in U : u <= k
  BY <1>1, Least
<1>3. PICK m \in T : u = b - m
  BY <1>2
<1>4. ASSUME NEW k \in T PROVE m >= k
  <2>1. b - k \in U /\ k \in Int /\ m \in Int
    OBVIOUS
  <2>2. b - m <= b - k
    BY <2>1, <1>2, <1>3
  <2> HIDE DEF U
  <2> QED
    BY <2>1, <2>2
<1>5. \E x \in T : \A y \in T : x >= y
  BY <1>4
<1> QED
  BY <1>5 DEF Max

(* A function that sums a sequence by always taking its last index.         *)
FoldsUpto(it, s, m) ==
    it = [S \in SUBSET (1..m) |-> IF S = {} THEN 0 ELSE it[S \ {Max(S)}] + s[Max(S)]]

LEMMA FolderExists ==
    ASSUME NEW s, NEW b \in Nat
    PROVE  \E it : FoldsUpto(it, s, b)
<1> DEFINE P == {m \in 0..b : \E it : FoldsUpto(it, s, m)}
<1>1. 0 \in P
  <2> DEFINE e == [S \in SUBSET (1..0) |-> 0]
  <2>1. FoldsUpto(e, s, 0)
    <3>1. \A S \in SUBSET (1..0) : S = {}
      OBVIOUS
    <3> QED
      BY <3>1 DEF FoldsUpto
  <2> QED
    BY <2>1
<1>2. ASSUME NEW m \in P, m < b PROVE m + 1 \in P
  <2>1. PICK it : FoldsUpto(it, s, m)
    OBVIOUS
  <2> DEFINE last(S) == it[S \ {m + 1}] + s[m + 1]
             h == [S \in SUBSET (1..(m + 1)) |-> IF m + 1 \in S THEN last(S) ELSE it[S]]
  <2>2. ASSUME NEW S \in SUBSET (1..(m + 1)), S # {}
        PROVE  h[S] = h[S \ {Max(S)}] + s[Max(S)]
    <3>1. Max(S) \in S /\ \A k \in S : k <= Max(S)
      <4>1. S \in SUBSET Int /\ m + 1 \in Int /\ \A k \in S : k <= m + 1
        OBVIOUS
      <4> QED
        BY ONLY <4>1, <2>2, MaxOf
    <3>2. CASE m + 1 \in S
      <4>1. Max(S) = m + 1
        <5>1. Max(S) \in 1..(m + 1) /\ m + 1 <= Max(S)
          BY ONLY <3>1, <3>2, S \in SUBSET (1..(m + 1)), Zenon
        <5>2. m \in Int
          OBVIOUS
        <5> QED
          BY ONLY <5>1, <5>2
      <4>2. S \ {m + 1} \in SUBSET (1..(m + 1)) /\ m + 1 \notin S \ {m + 1}
        OBVIOUS
      <4>3. h[S] = last(S)
        BY <3>2
      <4>4. h[S \ {m + 1}] = it[S \ {m + 1}]
        BY <4>2
      <4> HIDE DEF h
      <4> QED
        BY <4>1, <4>3, <4>4
    <3>3. CASE m + 1 \notin S
      <4>1. S \in SUBSET (1..m) /\ S \ {Max(S)} \in SUBSET (1..(m + 1))
        <5>1. \A k \in 1..(m + 1) : k # m + 1 => k \in 1..m
          OBVIOUS
        <5>2. \A k \in S : k \in 1..m
          BY <5>1, <3>3
        <5> QED
          BY <5>2
      <4>2. it[S] = it[S \ {Max(S)}] + s[Max(S)]
        BY <2>1, <2>2, <4>1 DEF FoldsUpto
      <4> QED
        BY <3>3, <4>1, <4>2
    <3> QED
      BY <3>2, <3>3
  <2>3. h[{}] = 0
    BY <2>1 DEF FoldsUpto
  <2>4. FoldsUpto(h, s, m + 1)
    <3>1. \A S \in SUBSET (1..(m + 1)) :
             h[S] = IF S = {} THEN 0 ELSE h[S \ {Max(S)}] + s[Max(S)]
      BY <2>2, <2>3
    <3>2. h = [S \in SUBSET (1..(m + 1)) |-> h[S]]
      OBVIOUS
    <3> HIDE DEF h
    <3>3. h = [S \in SUBSET (1..(m + 1)) |-> IF S = {} THEN 0 ELSE h[S \ {Max(S)}] + s[Max(S)]]
      BY ONLY <3>1, <3>2, Zenon
    <3> QED
      BY ONLY <3>3 DEF FoldsUpto
  <2>5. m + 1 \in 0..b
    BY <1>2
  <2> HIDE DEF h
  <2> QED
    BY <2>4, <2>5
<1>3. 0..b \subseteq P
  <2> HIDE DEF P
  <2> QED
    BY <1>1, <1>2, Induction
<1> QED
  BY <1>3

(* FoldLeft(+, 0, s) is the last of the partial sums of s.                  *)
LEMMA SumIs ==
    ASSUME NEW s \in Seq(Nat)
    PROVE  \E g \in [0..Len(s) -> Nat] :
              /\ g[0] = 0 /\ \A i \in 1..Len(s) : g[i] = g[i - 1] + s[i]
              /\ FoldLeft(+, 0, s) = g[Len(s)]
<1> DEFINE Def(it) == it = [S \in SUBSET (DOMAIN s) |->
                              IF S = {} THEN 0 ELSE it[S \ {Max(S)}] + s[Max(S)]]
           it == CHOOSE x : Def(x)
           g == [i \in 0..Len(s) |-> it[1..i]]
<1>1. Def(it)
  <2>1. DOMAIN s = 1..Len(s) /\ Len(s) \in Nat
    OBVIOUS
  <2>2. \E x : FoldsUpto(x, s, Len(s))
    BY <2>1, FolderExists
  <2>3. \E x : Def(x)
    BY <2>1, <2>2 DEF FoldsUpto
  <2> HIDE DEF Def
  <2> QED
    BY <2>3
<1>2. FoldLeft(+, 0, s) = it[DOMAIN s]
  BY DEF FoldLeft, MapThenFoldSet
<1> HIDE DEF it
<1>3. FoldLeft(+, 0, s) = g[Len(s)]
  <2>1. DOMAIN s = 1..Len(s) /\ Len(s) \in 0..Len(s)
    OBVIOUS
  <2> HIDE DEF Def
  <2> QED
    BY <1>2, <2>1
<1>4. g[0] = 0
  BY <1>1
<1>5. ASSUME NEW i \in 1..Len(s) PROVE g[i] = g[i - 1] + s[i]
  <2>1. Max(1..i) \in 1..i /\ \A k \in 1..i : k <= Max(1..i)
    <3>1. 1..i \in SUBSET Int /\ 1..i # {} /\ i \in Int /\ \A k \in 1..i : k <= i
      <4>1. 1 \in 1..i /\ i \in Int /\ \A k \in 1..i : k \in Int /\ k <= i
        OBVIOUS
      <4> QED
        BY ONLY <4>1
    <3> QED
      BY ONLY <3>1, MaxOf
  <2>2. Max(1..i) = i /\ (1..i) \ {i} = 1..(i - 1)
    BY <2>1
  <2>3. 1..i \in SUBSET (DOMAIN s) /\ 1 \in 1..i
    OBVIOUS
  <2>4. it[1..i] = it[(1..i) \ {Max(1..i)}] + s[Max(1..i)]
    BY <1>1, <2>3
  <2>5. i \in 0..Len(s) /\ i - 1 \in 0..Len(s)
    OBVIOUS
  <2>6. g[i] = it[1..i] /\ g[i - 1] = it[1..(i - 1)]
    BY <2>5
  <2> HIDE DEF g, Def
  <2> QED
    BY ONLY <2>2, <2>4, <2>6
<1>6. g \in [0..Len(s) -> Nat]
  <2> DEFINE P == {i \in 0..Len(s) : g[i] \in Nat}
  <2>1. 0 \in P
    BY <1>4
  <2>2. ASSUME NEW i \in P, i < Len(s) PROVE i + 1 \in P
    <3>1. i + 1 \in 1..Len(s) /\ (i + 1) - 1 = i /\ s[i + 1] \in Nat
      BY <2>2
    <3> HIDE DEF g
    <3>2. g[i + 1] = g[i] + s[i + 1]
      BY <1>5, <3>1
    <3> QED
      BY <3>1, <3>2
  <2>3. 0..Len(s) \subseteq P
    <3> HIDE DEF P
    <3> QED
      BY <2>1, <2>2, Induction
  <2> HIDE DEF g
  <2>4. \A i \in 0..Len(s) : g[i] \in Nat
    BY <2>3
  <2>5. g = [i \in 0..Len(s) |-> g[i]]
    BY DEF g
  <2> QED
    BY <2>4, <2>5
<1> QED
  <2> HIDE DEF g
  <2> QED
    BY <1>3, <1>4, <1>5, <1>6

(* Two sequences, one below the other plus a constant: so are their sums.   *)
LEMMA SumBelow ==
    ASSUME NEW s \in Seq(Nat), NEW t \in Seq(Nat), Len(s) = Len(t), NEW c \in Nat,
           \A i \in 1..Len(s) : t[i] <= s[i] + c
    PROVE  /\ FoldLeft(+, 0, s) \in Nat /\ FoldLeft(+, 0, t) \in Nat
           /\ FoldLeft(+, 0, t) <= FoldLeft(+, 0, s) + Len(s) * c
<1> DEFINE n == Len(s)
<1>1. PICK g \in [0..n -> Nat] : /\ g[0] = 0 /\ \A i \in 1..n : g[i] = g[i - 1] + s[i]
                                 /\ FoldLeft(+, 0, s) = g[n]
  BY SumIs
<1>2. PICK h \in [0..n -> Nat] : /\ h[0] = 0 /\ \A i \in 1..n : h[i] = h[i - 1] + t[i]
                                 /\ FoldLeft(+, 0, t) = h[n]
  BY SumIs
<1> DEFINE P == {i \in 0..n : h[i] <= g[i] + i * c}
<1>3. 0 \in P
  <2>1. 0 \in 0..n /\ 0 <= 0 + 0 * c
    OBVIOUS
  <2>2. g[0] = 0 /\ h[0] = 0
    BY ONLY <1>1, <1>2, Zenon
  <2>3. h[0] <= g[0] + 0 * c
    BY ONLY <2>1, <2>2, Zenon
  <2> QED
    BY ONLY <2>1, <2>3
<1>4. ASSUME NEW i \in P, i < n PROVE i + 1 \in P
  <2>1. i + 1 \in 1..n /\ (i + 1) - 1 = i /\ i \in 0..n /\ i + 1 \in 0..n
    BY <1>4
  <2>2. g[i + 1] = g[i] + s[i + 1] /\ h[i + 1] = h[i] + t[i + 1]
    BY <1>1, <1>2, <2>1
  <2>3. (i + 1) * c = i * c + c /\ i * c \in Int
    OBVIOUS
  <2>4. t[i + 1] <= s[i + 1] + c /\ t[i + 1] \in Nat /\ s[i + 1] \in Nat
    BY <2>1, SMTT(30)
  <2>0. h[i] <= g[i] + i * c
    OBVIOUS
  <2>5. h[i] <= g[i] + i * c /\ h[i] \in Nat /\ g[i] \in Nat /\ h[i + 1] \in Nat /\ g[i + 1] \in Nat
    BY <2>0, <2>1
  <2>6. h[i + 1] <= g[i + 1] + (i + 1) * c
    <3>1. \A a, d, e, f, x, y \in Int : a <= d + x /\ e <= f + c /\ y = x + c => a + e <= (d + f) + y
      OBVIOUS
    <3>2. i * c \in Int /\ (i + 1) * c \in Int /\ \A k \in Nat : k \in Int
      OBVIOUS
    <3>3. h[i] + t[i + 1] <= (g[i] + s[i + 1]) + (i + 1) * c
      BY ONLY <3>1, <3>2, <2>3, <2>4, <2>5, Zenon
    <3> QED
      BY <2>2, <3>3
  <2> QED
    BY <2>1, <2>6
<1>5. 0..n \subseteq P
  <2> HIDE DEF P
  <2> QED
    BY <1>3, <1>4, Induction, SMTT(30)
<1>6. n \in 0..n
  OBVIOUS
<1> QED
  BY <1>1, <1>2, <1>5, <1>6

(* ... and one below the sum of two others.                                 *)
LEMMA SumsBelow ==
    ASSUME NEW s \in Seq(Nat), NEW t \in Seq(Nat), NEW d \in Seq(Nat),
           Len(s) = Len(t), Len(s) = Len(d), \A i \in 1..Len(s) : t[i] <= s[i] + d[i]
    PROVE  /\ FoldLeft(+, 0, s) \in Nat /\ FoldLeft(+, 0, t) \in Nat /\ FoldLeft(+, 0, d) \in Nat
           /\ FoldLeft(+, 0, t) <= FoldLeft(+, 0, s) + FoldLeft(+, 0, d)
<1> DEFINE n == Len(s)
<1>0. n \in Nat
  OBVIOUS
<1>1. PICK g \in [0..n -> Nat] : /\ g[0] = 0 /\ \A i \in 1..n : g[i] = g[i - 1] + s[i]
                                 /\ FoldLeft(+, 0, s) = g[n]
  BY SumIs
<1>2. PICK h \in [0..n -> Nat] : /\ h[0] = 0 /\ \A i \in 1..n : h[i] = h[i - 1] + t[i]
                                 /\ FoldLeft(+, 0, t) = h[n]
  BY SumIs
<1>3. PICK e \in [0..n -> Nat] : /\ e[0] = 0 /\ \A i \in 1..n : e[i] = e[i - 1] + d[i]
                                 /\ FoldLeft(+, 0, d) = e[n]
  BY SumIs
<1> DEFINE P == {i \in 0..n : h[i] <= g[i] + e[i]}
<1>4. 0 \in P
  <2>1. h[0] = 0 /\ g[0] = 0 /\ e[0] = 0
    BY ONLY <1>1, <1>2, <1>3, Zenon
  <2>2. h[0] <= g[0] + e[0]
    BY ONLY <2>1
  <2>3. 0 \in 0..n
    BY ONLY <1>0
  <2> QED
    BY ONLY <2>2, <2>3, Zenon
<1>5. ASSUME NEW i \in P, i < n PROVE i + 1 \in P
  <2>1. i + 1 \in 1..n /\ (i + 1) - 1 = i /\ i \in 0..n /\ i + 1 \in 0..n
    BY <1>5
  <2>2. /\ g[i + 1] = g[i] + s[i + 1] /\ h[i + 1] = h[i] + t[i + 1]
        /\ e[i + 1] = e[i] + d[i + 1]
    BY <1>1, <1>2, <1>3, <2>1
  <2>3. t[i + 1] <= s[i + 1] + d[i + 1] /\ t[i + 1] \in Nat /\ s[i + 1] \in Nat /\ d[i + 1] \in Nat
    <3>1. i + 1 \in 1..Len(s) /\ i + 1 \in 1..Len(t) /\ i + 1 \in 1..Len(d)
      BY <2>1
    <3>2. \A u \in Seq(Nat) : \A k \in 1..Len(u) : u[k] \in Nat
      OBVIOUS
    <3> QED
      BY ONLY <3>1, <3>2, s \in Seq(Nat), t \in Seq(Nat), d \in Seq(Nat),
         \A k \in 1..Len(s) : t[k] <= s[k] + d[k], Zenon
  <2>4. h[i] <= g[i] + e[i] /\ h[i] \in Nat /\ g[i] \in Nat /\ e[i] \in Nat
    BY <2>1
  <2>5. \A a, b, c, x, y, z \in Nat : a <= b + c /\ x <= y + z => a + x <= (b + y) + (c + z)
    OBVIOUS
  <2>6. h[i] + t[i + 1] <= (g[i] + s[i + 1]) + (e[i] + d[i + 1])
    BY ONLY <2>3, <2>4, <2>5, Zenon
  <2> QED
    BY <2>1, <2>2, <2>6
<1>6. 0..n \subseteq P
  <2> HIDE DEF P
  <2> QED
    BY <1>0, <1>4, <1>5, Induction
<1>7. n \in 0..n
  BY <1>0
<1> QED
  BY <1>1, <1>2, <1>3, <1>6, <1>7

-----------------------------------------------------------------------------
(* Packing.                                                                 *)

(* What InputsAssumption says of the rows.                                  *)
LEMMA RowsAre ==
    ASSUME rows \in Inputs
    PROVE  /\ rows \in Seq(InputRow) /\ Len(rows) \in Nat \ {0}
           /\ DOMAIN rows = 1..Len(rows)
           /\ \A r \in DOMAIN rows :
                 /\ rows[r].id \in Clauses /\ rows[r].size \in Nat /\ rows[r].sends \in Nat
                 /\ rows[r].has \subseteq Field /\ rows[r].nullAction \in BOOLEAN
                 /\ rows[r].nullAction => 3 \notin rows[r].has
<1>1. rows \in Seq(InputRow) /\ rows # <<>>
  BY InputsAssumption
<1>2. Len(rows) \in Nat \ {0} /\ DOMAIN rows = 1..Len(rows)
  BY <1>1
<1>3. \A r \in DOMAIN rows : rows[r] \in InputRow
  BY <1>1
<1>4. \A x \in InputRow : /\ x.id \in Clauses /\ x.size \in Nat /\ x.sends \in Nat
                          /\ x.has \subseteq Field /\ x.nullAction \in BOOLEAN
  BY DEF InputRow
<1> QED
  BY <1>1, <1>2, <1>3, <1>4, InputsAssumption

(* The greedy packer takes a row at least, and more only if they fit.       *)
LEMMA ChunkEndIs ==
    ASSUME rows \in Inputs, NEW a \in 1..Len(rows)
    PROVE  /\ ChunkEnd(a) \in a..Len(rows)
           /\ ChunkEnd(a) = a \/ EncodedLength(a, ChunkEnd(a)) <= MaxChars
<1> DEFINE T == {b \in a..Len(rows) : \A c \in (a + 1)..b : EncodedLength(a, c) <= MaxChars}
<1>0. Len(rows) \in Nat
  BY RowsAre
<1>1. a \in T
  <2>1. (a + 1)..a = {} /\ a \in a..Len(rows)
    BY <1>0
  <2> QED
    BY <2>1
<1>2. T \in SUBSET Int /\ Len(rows) \in Int /\ \A k \in T : k <= Len(rows)
  BY <1>0
<1>3. Max(T) \in T
  <2> HIDE DEF T
  <2> QED
    BY ONLY <1>1, <1>2, MaxOf
<1>4. ChunkEnd(a) \in T
  BY <1>3 DEF ChunkEnd
<1>5. CASE ChunkEnd(a) # a
  <2>1. ChunkEnd(a) \in (a + 1)..ChunkEnd(a)
    BY <1>0, <1>4, <1>5
  <2> QED
    BY <1>4, <2>1
<1> QED
  BY <1>4, <1>5

(* The packer counts every marker as long as the last one; the request      *)
(* carries shorter ones.                                                    *)
LEMMA ChunkFits ==
    ASSUME rows \in Inputs, NEW a \in 1..Len(rows), NEW b \in a..Len(rows),
           EncodedLength(a, b) <= MaxChars
    PROVE  LET part(i) == rows[a + i - 1].size + 11 + Digits(i)
           IN  FoldLeft(+, 0, [i \in 1..(b - a + 1) |-> part(i)]) <= MaxChars
<1> DEFINE n == b - a + 1
           s == [i \in 1..n |-> rows[a + i - 1].size]
           t == [i \in 1..n |-> rows[a + i - 1].size + 11 + Digits(i)]
           c == 11 + Digits(n)
<1>1. n \in Nat /\ n > 0 /\ Len(rows) \in Nat /\ MaxChars \in Nat
  BY RowsAre, NumbersAssumption
<1>2. \A i \in 1..n : rows[a + i - 1].size \in Nat
  BY <1>1, RowsAre, SMTT(30)
<1>3. (\A i \in Nat : Digits(i) \in Nat) /\ \A i \in 1..n : i \in Nat
  <2> HIDE DEF n
  <2> QED
    BY <1>1 DEF Digits
<1>4. s \in Seq(Nat) /\ Len(s) = n
  <2> HIDE DEF n
  <2> QED
    BY <1>1, <1>2
<1>5. t \in Seq(Nat) /\ Len(t) = n
  <2>0. \A x, y \in Nat : x + 11 + y \in Nat
    OBVIOUS
  <2>1. \A i \in 1..n : rows[a + i - 1].size + 11 + Digits(i) \in Nat
    BY ONLY <2>0, <1>2, <1>3, Zenon
  <2> HIDE DEF n
  <2> QED
    BY <1>1, <2>1
<1>6. c \in Nat
  <2>0. \A y \in Nat : 11 + y \in Nat
    OBVIOUS
  <2>1. Digits(n) \in Nat
    BY ONLY <1>1, <1>3, Zenon
  <2> QED
    BY ONLY <2>0, <2>1, Zenon
<1>7. \A i \in 1..Len(s) : t[i] <= s[i] + c
  <2>0. \A x, y, z \in Nat : y <= z => x + 11 + y <= x + (11 + z)
    OBVIOUS
  <2>1. \A i \in 1..n : Digits(i) <= Digits(n)
    <3> HIDE DEF n
    <3> QED
      BY <1>1 DEF Digits
  <2>2. \A i \in 1..n : s[i] = rows[a + i - 1].size /\ t[i] = rows[a + i - 1].size + 11 + Digits(i)
    OBVIOUS
  <2>3. n \in Nat
    BY <1>1
  <2>4. \A i \in 1..n : t[i] <= s[i] + c
    BY ONLY <2>0, <2>1, <2>2, <2>3, <1>2, <1>3, Zenon
  <2> QED
    BY ONLY <1>4, <2>4, Zenon
<1>8. /\ FoldLeft(+, 0, s) \in Nat /\ FoldLeft(+, 0, t) \in Nat
      /\ FoldLeft(+, 0, t) <= FoldLeft(+, 0, s) + Len(s) * c
  <2> HIDE DEF s, t, c
  <2> QED
    BY <1>4, <1>5, <1>6, <1>7, SumBelow
<1>9. EncodedLength(a, b) = FoldLeft(+, 0, s) + n * c
  BY DEF EncodedLength
<1>10. FoldLeft(+, 0, t) <= MaxChars
  <2>1. \A x, y, z \in Int : x <= y /\ y <= z => x <= z
    OBVIOUS
  <2>2. FoldLeft(+, 0, s) + n * c \in Int /\ FoldLeft(+, 0, t) \in Int /\ MaxChars \in Int
    <3>1. n * c \in Int
      BY ONLY <1>1, <1>6
    <3>2. (\A x, y \in Int : x + y \in Int) /\ \A x \in Nat : x \in Int
      OBVIOUS
    <3> QED
      BY ONLY <1>1, <1>8, <3>1, <3>2, Zenon
  <2>3. FoldLeft(+, 0, s) + n * c <= MaxChars
    BY <1>9
  <2>4. FoldLeft(+, 0, t) <= FoldLeft(+, 0, s) + n * c
    BY ONLY <1>4, <1>8, Zenon
  <2> QED
    BY ONLY <2>1, <2>2, <2>3, <2>4, Zenon
<1> QED
  BY <1>10

(* The request that is sent: longer by what its rows have grown.            *)
LEMMA ChunkSent ==
    ASSUME rows \in Inputs, lo \in 1..Len(rows), hi \in lo..Len(rows),
           EncodedLength(lo, hi) <= MaxChars
    PROVE  Sent <= MaxChars + FoldLeft(+, 0, [i \in 1..(hi - lo + 1) |-> Grown(lo + i - 1)])
<1> DEFINE n == hi - lo + 1
           s == [i \in 1..n |-> rows[lo + i - 1].size + 11 + Digits(i)]
           t == [i \in 1..n |-> rows[lo + i - 1].sends + 11 + Digits(i)]
           d == [i \in 1..n |-> Grown(lo + i - 1)]
<1>1. n \in Nat /\ Len(rows) \in Nat /\ MaxChars \in Nat /\ \A i \in 1..n : lo + i - 1 \in DOMAIN rows
  BY RowsAre, NumbersAssumption
<1>2. \A i \in 1..n : /\ rows[lo + i - 1].size \in Nat /\ rows[lo + i - 1].sends \in Nat
                      /\ Digits(i) \in Nat
  <2> HIDE DEF n
  <2> QED
    BY <1>1, RowsAre DEF Digits
<1>3. \A i \in 1..n : /\ s[i] \in Nat /\ t[i] \in Nat /\ d[i] \in Nat
                      /\ t[i] <= s[i] + d[i]
  <2> SUFFICES ASSUME NEW i \in 1..n
                PROVE  /\ s[i] \in Nat /\ t[i] \in Nat /\ d[i] \in Nat
                       /\ t[i] <= s[i] + d[i]
    OBVIOUS
  <2> DEFINE x == rows[lo + i - 1].size
             y == rows[lo + i - 1].sends
             z == Digits(i)
  <2>1. x \in Nat /\ y \in Nat /\ z \in Nat
    BY ONLY <1>2, i \in 1..n, Zenon
  <2>2. s[i] = x + 11 + z /\ t[i] = y + 11 + z /\ d[i] = IF y > x THEN y - x ELSE 0
    BY DEF Grown
  <2> HIDE DEF s, t, d, x, y, z
  <2> QED
    BY ONLY <2>1, <2>2
<1>4. s \in Seq(Nat) /\ t \in Seq(Nat) /\ d \in Seq(Nat) /\ Len(s) = n /\ Len(t) = n /\ Len(d) = n
  <2>1. \A F : F \in [1..n -> Nat] => F \in Seq(Nat) /\ Len(F) = n
    <3> HIDE DEF n
    <3> QED
      BY <1>1
  <2>2. s \in [1..n -> Nat] /\ t \in [1..n -> Nat] /\ d \in [1..n -> Nat]
    BY ONLY <1>3, Zenon
  <2> QED
    BY ONLY <2>1, <2>2, Zenon
<1>5. FoldLeft(+, 0, s) <= MaxChars
  BY ChunkFits
<1>6. Sent = FoldLeft(+, 0, t) - 2
  BY DEF Sent
<1>7. /\ FoldLeft(+, 0, s) \in Nat /\ FoldLeft(+, 0, t) \in Nat /\ FoldLeft(+, 0, d) \in Nat
      /\ FoldLeft(+, 0, t) <= FoldLeft(+, 0, s) + FoldLeft(+, 0, d)
  <2> HIDE DEF s, t, d, n
  <2> QED
    BY <1>3, <1>4, SumsBelow
<1>8. Sent <= MaxChars + FoldLeft(+, 0, d)
  <2>1. \A x, y, z \in Nat : \A m \in Nat : x <= y + z /\ y <= m => x - 2 <= m + z
    OBVIOUS
  <2>2. FoldLeft(+, 0, t) - 2 <= MaxChars + FoldLeft(+, 0, d)
    <3> HIDE DEF s, t, d
    <3> QED
      BY ONLY <1>1, <1>5, <1>7, <2>1, Zenon
  <2> QED
    BY ONLY <1>6, <2>2, Zenon
<1>9. d = [i \in 1..(hi - lo + 1) |-> Grown(lo + i - 1)]
  OBVIOUS
<1> QED
  BY ONLY <1>8, <1>9, Zenon

(* Lengths are numbers.                                                     *)
LEMMA LengthType ==
    ASSUME rows \in Inputs, NEW a \in 1..Len(rows)
    PROVE  EncodedLength(a, a) \in Int
<1> DEFINE s == [i \in 1..1 |-> rows[a + i - 1].size]
<1>1. s \in Seq(Nat) /\ Len(s) = 1
  <2>1. \A i \in 1..1 : rows[a + i - 1].size \in Nat
    BY RowsAre
  <2> QED
    BY <2>1
<1>2. FoldLeft(+, 0, s) \in Nat
  <2>1. \A i \in 1..Len(s) : s[i] <= s[i] + 0
    BY <1>1
  <2> HIDE DEF s
  <2> QED
    BY <1>1, <2>1, SumBelow
<1>3. a - a + 1 = 1
  BY RowsAre
<1>4. EncodedLength(a, a) = FoldLeft(+, 0, s) + 1 * (11 + Digits(1))
  BY <1>3 DEF EncodedLength
<1> DEFINE k == FoldLeft(+, 0, s)
<1>5. k \in Nat /\ EncodedLength(a, a) = k + 1 * (11 + Digits(1))
  BY <1>2, <1>4
<1> HIDE DEF k
<1>6. Digits(1) = 1
  BY DEF Digits
<1> QED
  BY ONLY <1>5, <1>6

-----------------------------------------------------------------------------
(* Bodies.  Only the language of an answer matters here.                    *)

Token == {Marker(i) : i \in Nat} \cup {Sep} \cup {Text(r, f, "xx") : r \in Nat, f \in Field}

(* b is the body of row r; its separators are at u and v.                   *)
Shape(b, r, u, v) ==
    /\ b \in Seq(Token)
    /\ u \in 1..2 /\ v \in (u + 1)..(u + 2) /\ Len(b) \in v..(v + 1)
    /\ b[u] = Sep /\ b[v] = Sep
    /\ u = 2 => b[1] = Text(r, 1, "xx")
    /\ v = u + 2 => b[u + 1] = Text(r, 2, "xx")
    /\ Len(b) = v + 1 => b[v + 1] = Text(r, 3, "xx")

(* What is left of a body when the answer is cut in it or loses a separator.*)
Damaged(b) == {SubSeq(b, 1, j) : j \in 0..Len(b)} \cup {RemoveAt(b, j) : j \in SepsIn(b)}

LEMMA TokensDiffer ==
    /\ Sep \in Token /\ Sep.kind = "fld"
    /\ \A i \in Nat : Marker(i) \in Token /\ Marker(i).kind = "row" /\ Marker(i).n = i
    /\ \A r \in Nat, f \in Field : Text(r, f, "xx") \in Token
    /\ \A r, f : Text(r, f, "xx").kind = "text" /\ Text(r, f, "xx") # Sep
    /\ \A t \in Token : t = Sep \/ t.kind # "fld"
<1>1. Sep \in Token /\ Sep.kind = "fld"
  BY DEF Token, Sep
<1>2. \A i : Marker(i).kind = "row" /\ Marker(i).n = i
  BY DEF Marker
<1>3. \A r, f : Text(r, f, "xx").kind = "text" /\ Text(r, f, "xx") # Sep
  <2>1. \A r, f : Text(r, f, "xx").kind = "text"
    BY DEF Text
  <2> QED
    BY <2>1, <1>1
<1>4. \A i \in Nat : Marker(i) \in Token
  BY DEF Token
<1>5. \A r \in Nat, f \in Field : Text(r, f, "xx") \in Token
  BY DEF Token
<1>6. ASSUME NEW t \in Token PROVE t = Sep \/ t.kind # "fld"
  <2>1. (\E i \in Nat : t = Marker(i)) \/ t = Sep \/ \E r \in Nat, f \in Field : t = Text(r, f, "xx")
    BY DEF Token
  <2> QED
    BY <2>1, <1>2, <1>3
<1> QED
  BY <1>1, <1>2, <1>3, <1>4, <1>5, <1>6

(* Parts of sequences.                                                      *)
LEMMA OneOf ==
    ASSUME NEW T, NEW c \in Seq(T), NEW i \in 1..Len(c)
    PROVE  SubSeq(c, i, i) = <<c[i]>>
<1>1. SubSeq(c, i, i) \in Seq(T) /\ Len(SubSeq(c, i, i)) = 1 /\ SubSeq(c, i, i)[1] = c[i]
  OBVIOUS
<1> DEFINE d == SubSeq(c, i, i)
<1>2. d \in Seq(T) /\ Len(d) = 1 /\ d[1] = c[i]
  BY <1>1
<1> HIDE DEF d
<1>3. d = <<d[1]>>
  BY <1>2
<1> QED
  BY <1>2, <1>3 DEF d

LEMMA RemoveAtIs ==
    ASSUME NEW T, NEW c \in Seq(T), NEW i \in 1..Len(c)
    PROVE  /\ RemoveAt(c, i) \in Seq(T) /\ Len(RemoveAt(c, i)) = Len(c) - 1 /\ Len(c) \in Nat
           /\ \A k \in 1..(Len(c) - 1) :
                 /\ k \in Int
                 /\ k < i => RemoveAt(c, i)[k] = c[k]
                 /\ k >= i => RemoveAt(c, i)[k] = c[k + 1]
<1> DEFINE a == SubSeq(c, 1, i - 1)
           b == SubSeq(c, i + 1, Len(c))
<1>1. /\ a \in Seq(T) /\ Len(a) = i - 1 /\ \A k \in 1..(i - 1) : a[k] = c[k]
      /\ b \in Seq(T) /\ Len(b) = Len(c) - i /\ \A k \in 1..(Len(c) - i) : b[k] = c[i + k]
      /\ Len(c) \in Nat /\ i \in Int /\ 1 <= i /\ i <= Len(c)
  BY SMTT(30)
<1>2. RemoveAt(c, i) = a \o b
  BY DEF RemoveAt
<1> HIDE DEF a, b
<1>3. /\ a \o b \in Seq(T) /\ Len(a \o b) = Len(c) - 1
      /\ \A k \in 1..(i - 1) : (a \o b)[k] = a[k]
      /\ \A k \in i..(Len(c) - 1) : (a \o b)[k] = b[k - (i - 1)]
  <2>1. a \in Seq(T) /\ b \in Seq(T)
    BY <1>1
  <2>2. /\ a \o b \in Seq(T) /\ Len(a \o b) = Len(a) + Len(b)
        /\ \A k \in 1..Len(a) : (a \o b)[k] = a[k]
        /\ \A k \in (Len(a) + 1)..(Len(a) + Len(b)) : (a \o b)[k] = b[k - Len(a)]
    BY ONLY <2>1
  <2>3. Len(a) + 1 = i /\ Len(a) + Len(b) = Len(c) - 1
    BY <1>1
  <2> QED
    BY ONLY <2>2, <2>3, <1>1
<1>4. ASSUME NEW k \in 1..(Len(c) - 1)
      PROVE  k \in Int /\ (k < i => (a \o b)[k] = c[k]) /\ (k >= i => (a \o b)[k] = c[k + 1])
  <2>1. k \in Int /\ 1 <= k /\ k <= Len(c) - 1
    BY <1>1
  <2>2. CASE k < i
    BY <2>1, <2>2, <1>1, <1>3
  <2>3. CASE k >= i
    <3>1. k \in i..(Len(c) - 1) /\ k - (i - 1) \in 1..(Len(c) - i) /\ i + (k - (i - 1)) = k + 1
      BY <2>1, <2>3, <1>1
    <3>2. (a \o b)[k] = b[k - (i - 1)] /\ b[k - (i - 1)] = c[i + (k - (i - 1))]
      BY ONLY <3>1, <1>1, <1>3, Zenon
    <3> QED
      BY <3>1, <3>2, <2>3
  <2> QED
    BY <2>1, <2>2, <2>3
<1> QED
  BY <1>1, <1>2, <1>3, <1>4

LEMMA BodyIs ==
    ASSUME NEW r \in Nat
    PROVE  \E u, v : Shape(Body(r, "xx"), r, u, v)
<1> DEFINE S == Sep
           t(f) == Text(r, f, "xx")
           x == Own(r, 1, "xx")
           y == Own(r, 2, "xx")
           z == Own(r, 3, "xx")
<1>1. S \in Token /\ \A f \in Field : t(f) \in Token
  BY TokensDiffer
<1>2. /\ x \in {<<>>, <<t(1)>>} /\ y \in {<<>>, <<t(2)>>} /\ z \in {<<>>, <<t(3)>>}
  BY DEF Own
<1>3. Body(r, "xx") = x \o <<S>> \o y \o <<S>> \o z
  BY DEF Body
<1> DEFINE b == x \o <<S>> \o y \o <<S>> \o z
           u == Len(x) + 1
           v == u + Len(y) + 1
<1> HIDE DEF x, y, z, S, t
<1>4. t(1) \in Token /\ t(2) \in Token /\ t(3) \in Token
  BY <1>1 DEF Field
<1>5. \A e \in Token : <<e>> \in Seq(Token) /\ Len(<<e>>) = 1 /\ <<e>>[1] = e
  OBVIOUS
<1>6. <<>> \in Seq(Token) /\ Len(<<>>) = 0
  OBVIOUS
<1>6a. \A e \in Token : \A w \in {<<>>, <<e>>} :
          w \in Seq(Token) /\ Len(w) \in 0..1 /\ (Len(w) = 1 => w[1] = e)
  <2>1. \A k : k = 1 => k \in 0..1
    OBVIOUS
  <2>2. 0 \in 0..1 /\ 0 # 1
    OBVIOUS
  <2> QED
    BY ONLY <1>5, <1>6, <2>1, <2>2, Zenon
<1>7. /\ x \in Seq(Token) /\ Len(x) \in 0..1 /\ (Len(x) = 1 => x[1] = t(1))
      /\ y \in Seq(Token) /\ Len(y) \in 0..1 /\ (Len(y) = 1 => y[1] = t(2))
      /\ z \in Seq(Token) /\ Len(z) \in 0..1 /\ (Len(z) = 1 => z[1] = t(3))
      /\ <<S>> \in Seq(Token) /\ Len(<<S>>) = 1 /\ <<S>>[1] = S
  BY ONLY <1>1, <1>2, <1>4, <1>5, <1>6a, Zenon
<1>8. \A c, d \in Seq(Token) :
         /\ c \o d \in Seq(Token) /\ Len(c \o d) = Len(c) + Len(d)
         /\ \A i \in 1..Len(c) : (c \o d)[i] = c[i]
         /\ \A i \in 1..Len(d) : (c \o d)[Len(c) + i] = d[i]
         /\ Len(c) \in Nat /\ Len(d) \in Nat
  OBVIOUS
<1> DEFINE b1 == x \o <<S>>
           b2 == b1 \o y
           b3 == b2 \o <<S>>
<1> DEFINE Joined(c, d, e) ==
         /\ e \in Seq(Token) /\ Len(e) = Len(c) + Len(d)
         /\ \A i \in 1..Len(c) : e[i] = c[i]
         /\ \A i \in 1..Len(d) : e[Len(c) + i] = d[i]
<1>9. Joined(x, <<S>>, b1)
  BY ONLY <1>7, <1>8, Zenon
<1> HIDE DEF b1
<1>10. Joined(b1, y, b2)
  BY ONLY <1>7, <1>8, <1>9, Zenon
<1> HIDE DEF b2
<1>11. Joined(b2, <<S>>, b3)
  BY ONLY <1>7, <1>8, <1>10, Zenon
<1> HIDE DEF b3
<1>12. b = b3 \o z
  BY DEF b1, b2, b3
<1> HIDE DEF b
<1>13. Joined(b3, z, b)
  <2>1. Joined(b3, z, b3 \o z)
    BY ONLY <1>7, <1>8, <1>11, Zenon
  <2> QED
    BY ONLY <2>1, <1>12, Zenon
<1>7a. /\ Len(x) = 0 \/ Len(x) = 1
       /\ Len(y) = 0 \/ Len(y) = 1
       /\ Len(z) = 0 \/ Len(z) = 1
  <2>1. \A k \in 0..1 : k = 0 \/ k = 1
    OBVIOUS
  <2> QED
    BY ONLY <2>1, <1>7, Zenon
<1>7b. /\ u = 1 \/ u = 2
       /\ v = u + 1 \/ v = u + 2
       /\ u = 2 => Len(x) = 1
       /\ v = u + 2 => Len(y) = 1
  <2>1. \A k, l \in 0..1 : /\ k + 1 = 1 \/ k + 1 = 2
                           /\ (k + 1) + l + 1 = (k + 1) + 1 \/ (k + 1) + l + 1 = (k + 1) + 2
                           /\ k + 1 = 2 => k = 1
                           /\ (k + 1) + l + 1 = (k + 1) + 2 => l = 1
    OBVIOUS
  <2> QED
    BY ONLY <2>1, <1>7, Zenon
<1>13a. Len(b1) = u /\ b1[u] = S /\ (u = 2 => b1[1] = t(1))
  BY ONLY <1>7, <1>9
<1>13b. Len(b2) = u + Len(y) /\ b2[u] = S /\ (u = 2 => b2[1] = t(1)) /\ (Len(y) = 1 => b2[u + 1] = t(2))
  BY ONLY <1>7, <1>10, <1>13a, SMTT(30)
<1>13c. /\ Len(b3) = v /\ b3[u] = S /\ b3[v] = S /\ (u = 2 => b3[1] = t(1))
        /\ Len(y) = 1 => b3[u + 1] = t(2)
  BY ONLY <1>7, <1>11, <1>13b
<1>13d. /\ Len(b) = v + Len(z) /\ b[u] = S /\ b[v] = S /\ (u = 2 => b[1] = t(1))
        /\ Len(y) = 1 => b[u + 1] = t(2)
        /\ Len(z) = 1 => b[v + 1] = t(3)
  <2>1. Len(z) = 1 => 1 \in 1..Len(z)
    OBVIOUS
  <2>2. 1..v = 1..Len(b3) /\ u \in 1..v /\ v \in 1..v /\ 1 \in 1..v /\ (Len(y) = 1 => u + 1 \in 1..v)
    BY ONLY <1>7a, <1>13c
  <2> QED
    BY ONLY <1>7, <1>13, <1>13c, <2>1, <2>2
<1>14. Shape(b, r, u, v)
  <2>1. u \in 1..2 /\ v \in (u + 1)..(u + 2) /\ (v = u + 2 => Len(y) = 1)
    BY ONLY <1>7b
  <2>2. Len(b) \in v..(v + 1) /\ (Len(b) = v + 1 => Len(z) = 1)
    <3>1. \A j \in Int, k \in 0..1 : j + k \in j..(j + 1) /\ (j + k = j + 1 => k = 1)
      OBVIOUS
    <3>2. v \in Int
      BY ONLY <2>1
    <3> HIDE DEF v
    <3> QED
      BY ONLY <3>1, <3>2, <1>7, <1>13d, Zenon
  <2> HIDE DEF u, v
  <2> QED
    BY <1>13, <1>13d, <2>1, <2>2 DEF Shape, S, t
<1> QED
  <2>1. Body(r, "xx") = b
    BY <1>3 DEF b
  <2> QED
    BY ONLY <2>1, <1>14, Zenon

LEMMA BodyType ==
    ASSUME NEW r \in Nat
    PROVE  /\ Body(r, "xx") \in Seq(Token) /\ Len(Body(r, "xx")) \in Nat
           /\ DOMAIN Body(r, "xx") = 1..Len(Body(r, "xx"))
<1>1. Body(r, "xx") \in Seq(Token)
  BY BodyIs DEF Shape
<1> QED
  BY <1>1

(* Where the tokens of a body are.                                          *)
LEMMA ShapeIs ==
    ASSUME NEW r \in Nat, NEW b, NEW u, NEW v, Shape(b, r, u, v)
    PROVE  /\ SepsIn(b) = {u, v}
           /\ \A k \in 1..Len(b) : b[k].kind # "row"
           /\ u \in Nat /\ v \in Nat /\ u >= 1 /\ u < v /\ v <= Len(b) /\ Len(b) \in Nat
<1>1. /\ b \in Seq(Token)
      /\ u \in 1..2 /\ v \in (u + 1)..(u + 2) /\ Len(b) \in v..(v + 1)
      /\ DOMAIN b = 1..Len(b)
  BY DEF Shape
<1>1a. u \in Int /\ v \in Int /\ Len(b) \in Int /\ u < v /\ v <= Len(b) /\ u >= 1
  BY <1>1
<1>2. \A k \in 1..Len(b) : k \in {u, v} \/ (b[k].kind = "text" /\ b[k] # Sep)
  <2>1. ASSUME NEW k \in 1..Len(b)
        PROVE  \/ k = u \/ k = v
               \/ u = 2 /\ k = 1
               \/ v = u + 2 /\ k = u + 1
               \/ Len(b) = v + 1 /\ k = v + 1
    <3>1. /\ u = 1 \/ u = 2
          /\ v = u + 1 \/ v = u + 2
          /\ Len(b) = v \/ Len(b) = v + 1
      <4>1. /\ \A j \in Int : \A i \in j..(j + 1) : i = j \/ i = j + 1
            /\ \A j \in Int : \A i \in (j + 1)..(j + 2) : i = j + 1 \/ i = j + 2
            /\ \A i \in 1..2 : i = 1 \/ i = 2
        OBVIOUS
      <4> QED
        BY ONLY <4>1, <1>1, <1>1a, Zenon
    <3>2. k \in Int /\ 1 <= k /\ k <= Len(b)
      BY ONLY <1>1a, k \in 1..Len(b)
    <3> QED
      BY ONLY <3>1, <3>2
  <2>2. /\ u = 2 => b[1] = Text(r, 1, "xx")
        /\ v = u + 2 => b[u + 1] = Text(r, 2, "xx")
        /\ Len(b) = v + 1 => b[v + 1] = Text(r, 3, "xx")
    BY Zenon DEF Shape
  <2>3. \A f : Text(r, f, "xx").kind = "text" /\ Text(r, f, "xx") # Sep
    BY TokensDiffer
  <2>4. ASSUME NEW k \in 1..Len(b) PROVE k \in {u, v} \/ (b[k].kind = "text" /\ b[k] # Sep)
    <3>1. CASE k = u \/ k = v
      BY <3>1
    <3>2. CASE u = 2 /\ k = 1
      BY ONLY <3>2, <2>2, <2>3
    <3>3. CASE v = u + 2 /\ k = u + 1
      BY ONLY <3>3, <2>2, <2>3
    <3>4. CASE Len(b) = v + 1 /\ k = v + 1
      BY ONLY <3>4, <2>2, <2>3
    <3> QED
      BY <3>1, <3>2, <3>3, <3>4, <2>1
  <2> QED
    BY <2>4
<1>3. b[u] = Sep /\ b[v] = Sep /\ u \in 1..Len(b) /\ v \in 1..Len(b)
  <2>1. b[u] = Sep /\ b[v] = Sep
    BY DEF Shape
  <2> QED
    BY <1>1a, <2>1
<1>4. SepsIn(b) = {u, v}
  BY <1>1, <1>2, <1>3 DEF SepsIn
<1>5. \A k \in 1..Len(b) : b[k].kind # "row"
  BY <1>2, <1>3, TokensDiffer
<1> QED
  BY <1>1, <1>4, <1>5

(* Splitting what is left of a body: with fewer than two separators it is   *)
(* dropped; otherwise every field is the row's own or empty.                *)
LEMMA SplitIs ==
    ASSUME NEW r \in Nat, NEW b, NEW u, NEW v, Shape(b, r, u, v),
           NEW c \in Damaged(b), Cardinality(SepsIn(c)) >= 2
    PROVE  \A f \in Field : Split(c)[f] \in {<<>>, <<Text(r, f, "xx")>>}
<1>1. /\ SepsIn(b) = {u, v} /\ b \in Seq(Token)
      /\ u \in Nat /\ v \in Nat /\ u >= 1 /\ u < v /\ v <= Len(b) /\ Len(b) \in Nat
  <2>1. b \in Seq(Token)
    BY DEF Shape
  <2> QED
    BY <2>1, ShapeIs
<1>2. b[u] = Sep /\ b[v] = Sep /\ \A k \in 1..Len(b) : b[k] = Sep => k = u \/ k = v
  <2>1. SepsIn(b) = {u, v} /\ DOMAIN b = 1..Len(b)
    BY <1>1
  <2>2. \A k \in DOMAIN b : k \in SepsIn(b) <=> b[k] = Sep
    BY DEF SepsIn
  <2>3. u \in 1..Len(b) /\ v \in 1..Len(b)
    BY <1>1
  <2> QED
    BY ONLY <2>1, <2>2, <2>3
(* A set within a singleton is not enough.                                  *)
<1>3. \A x : ~(SepsIn(c) \subseteq {x})
  <2>1. ASSUME NEW x, SepsIn(c) \subseteq {x} PROVE FALSE
    <3>1. IsFiniteSet({x}) /\ Cardinality({x}) = 1
      BY FS_Singleton
    <3>2. Cardinality(SepsIn(c)) <= 1 /\ Cardinality(SepsIn(c)) \in Nat
      BY <2>1, <3>1, FS_Subset, FS_CardinalityType
    <3> QED
      BY <3>2
  <2> QED
    BY <2>1
<1>4. CASE c \in {SubSeq(b, 1, j) : j \in 0..Len(b)}
  <2>1. PICK j \in 0..Len(b) : c = SubSeq(b, 1, j)
    BY <1>4
  <2>2. c \in Seq(Token) /\ DOMAIN c = 1..j /\ Len(c) = j /\ \A k \in 1..j : c[k] = b[k]
    BY <1>1, <2>1
  <2>3. j \in Int /\ j <= Len(b) /\ \A k \in 1..j : k \in 1..Len(b)
    BY <1>1
  <2>4. SepsIn(c) \subseteq {u, v} /\ \A k \in SepsIn(c) : k \in 1..j
    BY <1>2, <2>2, <2>3 DEF SepsIn
  <2>5. v <= j
    <3>1. v \in SepsIn(c)
      BY ONLY <1>3, <2>4
    <3> QED
      BY ONLY <3>1, <2>3, <2>4, <1>1
  <2>6. SepsIn(c) = {u, v}
    BY ONLY <1>3, <2>4
  <2>7. Min({u, v}) = u
    <3>1. {u, v} \in SUBSET Nat /\ {u, v} # {}
      BY <1>1
    <3>2. Min({u, v}) \in {u, v} /\ \A k \in {u, v} : Min({u, v}) <= k
      BY ONLY <3>1, MinOf
    <3> QED
      BY <3>2, <1>1
  <2>8. Min({u, v} \ {u}) = v
    <3>1. {u, v} \ {u} = {v} /\ {v} \in SUBSET Nat /\ {v} # {}
      BY <1>1
    <3> QED
      BY ONLY <3>1, MinOf
  <2>9. Split(c) = <<SubSeq(c, 1, u - 1), SubSeq(c, u + 1, v - 1), SubSeq(c, v + 1, j)>>
    BY <2>2, <2>6, <2>7, <2>8 DEF Split
  <2>10. SubSeq(c, 1, u - 1) \in {<<>>, <<Text(r, 1, "xx")>>}
    <3>1. u = 1 \/ (u = 2 /\ b[1] = Text(r, 1, "xx"))
      BY DEF Shape
    <3>2. CASE u = 1
      BY <3>2, <2>2, <2>5, <1>1
    <3>3. CASE u = 2 /\ b[1] = Text(r, 1, "xx")
      <4>0. 1 \in 1..Len(c) /\ u - 1 = 1
        BY <3>3, <2>2, <2>5, <1>1
      <4>1. SubSeq(c, 1, 1) = <<c[1]>> /\ c[1] = b[1]
        BY ONLY <4>0, <2>2, OneOf, Zenon
      <4> QED
        BY <3>3, <4>0, <4>1
    <3> QED
      BY <3>1, <3>2, <3>3
  <2>11. SubSeq(c, u + 1, v - 1) \in {<<>>, <<Text(r, 2, "xx")>>}
    <3>1. v = u + 1 \/ (v = u + 2 /\ b[u + 1] = Text(r, 2, "xx"))
      BY DEF Shape
    <3>2. CASE v = u + 1
      BY <3>2, <2>2, <2>5, <1>1
    <3>3. CASE v = u + 2 /\ b[u + 1] = Text(r, 2, "xx")
      <4>0. u + 1 \in 1..Len(c) /\ v - 1 = u + 1
        BY <3>3, <2>2, <2>3, <2>5, <1>1
      <4>1. SubSeq(c, u + 1, u + 1) = <<c[u + 1]>> /\ c[u + 1] = b[u + 1]
        BY ONLY <4>0, <2>2, OneOf, Zenon
      <4> QED
        BY <3>3, <4>0, <4>1
    <3> QED
      BY <3>1, <3>2, <3>3
  <2>12. SubSeq(c, v + 1, j) \in {<<>>, <<Text(r, 3, "xx")>>}
    <3>1. Len(b) = v \/ (Len(b) = v + 1 /\ b[v + 1] = Text(r, 3, "xx"))
      BY DEF Shape
    <3>2. CASE j = v
      BY <3>2, <2>2, <1>1
    <3>3. CASE j = v + 1
      <4>0. v + 1 \in 1..Len(c)
        BY <3>3, <2>2, <2>3, <2>5, <1>1
      <4>1. SubSeq(c, v + 1, v + 1) = <<c[v + 1]>> /\ c[v + 1] = b[v + 1]
        BY ONLY <4>0, <2>2, OneOf, Zenon
      <4>2. b[v + 1] = Text(r, 3, "xx")
        BY <3>1, <3>3, <2>3, <1>1
      <4> QED
        BY <4>1, <4>2, <3>3
    <3> QED
      BY <3>1, <3>2, <3>3, <2>3, <2>5, <1>1
  <2>13. \A x, y, z : <<x, y, z>>[1] = x /\ <<x, y, z>>[2] = y /\ <<x, y, z>>[3] = z
    OBVIOUS
  <2>14. /\ Split(c)[1] = SubSeq(c, 1, u - 1)
         /\ Split(c)[2] = SubSeq(c, u + 1, v - 1)
         /\ Split(c)[3] = SubSeq(c, v + 1, j)
    <3> DEFINE p1 == SubSeq(c, 1, u - 1)
               p2 == SubSeq(c, u + 1, v - 1)
               p3 == SubSeq(c, v + 1, j)
    <3>1. Split(c) = <<p1, p2, p3>>
      BY ONLY <2>9
    <3> HIDE DEF p1, p2, p3
    <3>2. Split(c)[1] = p1 /\ Split(c)[2] = p2 /\ Split(c)[3] = p3
      BY ONLY <3>1, <2>13
    <3> QED
      BY ONLY <3>2 DEF p1, p2, p3
  <2>15. \A f \in Field : f = 1 \/ f = 2 \/ f = 3
    BY DEF Field
  <2> QED
    BY ONLY <2>10, <2>11, <2>12, <2>14, <2>15, Zenon
<1>5. CASE c \in {RemoveAt(b, j) : j \in SepsIn(b)}
  <2>1. PICK j \in {u, v} : c = RemoveAt(b, j)
    BY <1>1, <1>5
  <2>0. j \in 1..Len(b)
    BY <1>1
  <2>2. /\ j \in 1..Len(b) /\ c \in Seq(Token) /\ Len(c) = Len(b) - 1
        /\ \A k \in 1..(Len(b) - 1) : /\ k \in Int /\ (k < j => c[k] = b[k])
                                      /\ k >= j => c[k] = b[k + 1]
    BY ONLY <1>1, <2>0, <2>1, RemoveAtIs, Zenon
  <2>3. \A k \in SepsIn(c) : k \in 1..(Len(b) - 1) /\ c[k] = Sep
    <3>1. DOMAIN c = 1..Len(c)
      BY <2>2
    <3> QED
      BY <2>2, <3>1 DEF SepsIn
  <2>4. CASE j = u
    <3>1. ASSUME NEW k \in SepsIn(c) PROVE k = v - 1
      <4>1. k \in Int /\ 1 <= k /\ k <= Len(b) - 1 /\ k \in 1..(Len(b) - 1) /\ c[k] = Sep
        BY <1>1, <2>3
      <4>2. CASE k < j
        <5>1. k \in 1..Len(b) /\ b[k] = Sep
          BY <4>1, <4>2, <2>2, <1>1
        <5>2. k = u \/ k = v
          BY ONLY <5>1, <1>2, Zenon
        <5> QED
          BY <5>2, <4>1, <4>2, <2>4, <1>1
      <4>3. CASE k >= j
        <5>1. k + 1 \in 1..Len(b) /\ b[k + 1] = Sep
          BY <4>1, <4>3, <2>2, <1>1
        <5>2. k + 1 = u \/ k + 1 = v
          BY ONLY <5>1, <1>2, Zenon
        <5> QED
          BY <5>2, <4>1, <4>3, <2>4, <1>1
      <4> QED
        BY <4>1, <4>2, <4>3, <2>4, <1>1
    <3> QED
      BY <3>1, <1>3
  <2>5. CASE j = v
    <3>1. ASSUME NEW k \in SepsIn(c) PROVE k = u
      <4>1. k \in Int /\ 1 <= k /\ k <= Len(b) - 1 /\ k \in 1..(Len(b) - 1) /\ c[k] = Sep
        BY <1>1, <2>3
      <4>2. CASE k < j
        <5>1. k \in 1..Len(b) /\ b[k] = Sep
          BY <4>1, <4>2, <2>2, <1>1
        <5>2. k = u \/ k = v
          BY ONLY <5>1, <1>2, Zenon
        <5> QED
          BY <5>2, <4>1, <4>2, <2>5, <1>1
      <4>3. CASE k >= j
        <5>1. k + 1 \in 1..Len(b) /\ b[k + 1] = Sep
          BY <4>1, <4>3, <2>2, <1>1
        <5>2. k + 1 = u \/ k + 1 = v
          BY ONLY <5>1, <1>2, Zenon
        <5> QED
          BY <5>2, <4>1, <4>3, <2>5, <1>1
      <4> QED
        BY <4>1, <4>2, <4>3, <2>5, <1>1
    <3> QED
      BY <3>1, <1>3
  <2> QED
    BY <2>4, <2>5
<1> QED
  BY <1>4, <1>5 DEF Damaged

(* Splitting two bodies that ran together: the first row's texts, with all  *)
(* of the second body behind its action.                                    *)
LEMMA SplitSwallowed ==
    ASSUME NEW r \in Nat, NEW b, NEW u, NEW v, Shape(b, r, u, v), NEW d \in Seq(Token)
    PROVE  LET c == b \o d
           IN  /\ Split(c)[1] \in {<<>>, <<Text(r, 1, "xx")>>}
               /\ Split(c)[2] \in {<<>>, <<Text(r, 2, "xx")>>}
               /\ \E t \in {<<>>, <<Text(r, 3, "xx")>>} : Split(c)[3] = t \o d
<1> DEFINE c == b \o d
<1>1. /\ SepsIn(b) = {u, v} /\ b \in Seq(Token)
      /\ u \in Nat /\ v \in Nat /\ u >= 1 /\ u < v /\ v <= Len(b) /\ Len(b) \in Nat
  <2>1. b \in Seq(Token)
    BY DEF Shape
  <2> QED
    BY <2>1, ShapeIs
<1>2. /\ c \in Seq(Token) /\ Len(c) = Len(b) + Len(d) /\ DOMAIN c = 1..Len(c) /\ Len(d) \in Nat
      /\ \A k \in 1..Len(b) : c[k] = b[k]
      /\ \A k \in 1..Len(d) : c[Len(b) + k] = d[k]
  BY <1>1
<1> HIDE DEF c
<1>3. \A k \in 1..Len(b) : c[k] = Sep <=> (k = u \/ k = v)
  <2>1. DOMAIN b = 1..Len(b)
    BY <1>1
  <2>2. \A k \in 1..Len(b) : k \in SepsIn(b) <=> b[k] = Sep
    BY <2>1 DEF SepsIn
  <2> QED
    BY ONLY <2>2, <1>1, <1>2
<1>4. /\ SepsIn(c) \in SUBSET Nat /\ u \in SepsIn(c) /\ v \in SepsIn(c)
      /\ \A k \in SepsIn(c) : k = u \/ k = v \/ k > Len(b)
  <2>1. \A k \in SepsIn(c) : k \in 1..Len(c) /\ c[k] = Sep
    BY <1>2 DEF SepsIn
  <2>2. u \in 1..Len(b) /\ v \in 1..Len(b) /\ u \in 1..Len(c) /\ v \in 1..Len(c)
    BY <1>1, <1>2
  <2>3. u \in SepsIn(c) /\ v \in SepsIn(c)
    BY <2>2, <1>2, <1>3 DEF SepsIn
  <2>4. ASSUME NEW k \in SepsIn(c) PROVE k \in Nat /\ (k = u \/ k = v \/ k > Len(b))
    BY <2>1, <1>1, <1>2, <1>3
  <2> QED
    BY <2>3, <2>4
<1>5. Min(SepsIn(c)) = u
  <2>1. Min(SepsIn(c)) \in SepsIn(c) /\ \A k \in SepsIn(c) : Min(SepsIn(c)) <= k
    BY ONLY <1>4, MinOf
  <2> QED
    BY ONLY <2>1, <1>1, <1>4
<1>6. Min(SepsIn(c) \ {u}) = v
  <2> DEFINE rest == SepsIn(c) \ {u}
  <2>1. rest \in SUBSET Nat /\ v \in rest /\ \A k \in rest : k = v \/ k > Len(b)
    BY <1>1, <1>4
  <2> HIDE DEF rest
  <2>2. Min(rest) \in rest /\ \A k \in rest : Min(rest) <= k
    BY ONLY <2>1, MinOf
  <2> DEFINE m == Min(rest)
  <2>3. m \in Nat /\ m <= v /\ (m = v \/ m > Len(b))
    BY ONLY <2>1, <2>2
  <2> HIDE DEF m
  <2>4. m = v
    BY ONLY <2>3, <1>1
  <2> QED
    BY <2>4 DEF rest, m
<1> DEFINE p1 == SubSeq(c, 1, u - 1)
           p2 == SubSeq(c, u + 1, v - 1)
           p3 == SubSeq(c, v + 1, Len(c))
<1>7. Split(c) = <<p1, p2, p3>>
  BY <1>5, <1>6 DEF Split
<1>8. p1 \in {<<>>, <<Text(r, 1, "xx")>>}
  <2>1. u = 1 \/ (u = 2 /\ b[1] = Text(r, 1, "xx"))
    BY DEF Shape
  <2>2. CASE u = 1
    BY <2>2, <1>2
  <2>3. CASE u = 2 /\ b[1] = Text(r, 1, "xx")
    <3>0. 1 \in 1..Len(c) /\ 1 \in 1..Len(b) /\ u - 1 = 1
      BY <2>3, <1>1, <1>2
    <3>1. SubSeq(c, 1, 1) = <<c[1]>> /\ c[1] = b[1]
      BY ONLY <3>0, <1>2, OneOf, Zenon
    <3> QED
      BY <2>3, <3>0, <3>1
  <2> QED
    BY <2>1, <2>2, <2>3
<1>9. p2 \in {<<>>, <<Text(r, 2, "xx")>>}
  <2>1. v = u + 1 \/ (v = u + 2 /\ b[u + 1] = Text(r, 2, "xx"))
    BY DEF Shape
  <2>2. CASE v = u + 1
    BY <2>2, <1>1, <1>2
  <2>3. CASE v = u + 2 /\ b[u + 1] = Text(r, 2, "xx")
    <3>0. u + 1 \in 1..Len(c) /\ u + 1 \in 1..Len(b) /\ v - 1 = u + 1
      BY <2>3, <1>1, <1>2
    <3>1. SubSeq(c, u + 1, u + 1) = <<c[u + 1]>> /\ c[u + 1] = b[u + 1]
      BY ONLY <3>0, <1>2, OneOf, Zenon
    <3> QED
      BY <2>3, <3>0, <3>1
  <2> QED
    BY <2>1, <2>2, <2>3
<1>10. \E t \in {<<>>, <<Text(r, 3, "xx")>>} : p3 = t \o d
  <2>1. Len(b) = v \/ (Len(b) = v + 1 /\ b[v + 1] = Text(r, 3, "xx"))
    BY <1>1 DEF Shape
  <2>2. /\ p3 \in Seq(Token) /\ Len(p3) = Len(c) - v
        /\ \A k \in 1..(Len(c) - v) : p3[k] = c[v + k]
    <3>1. \A T : \A g \in Seq(T), k \in Nat : k <= Len(g) =>
             LET h == SubSeq(g, k + 1, Len(g))
             IN  h \in Seq(T) /\ Len(h) = Len(g) - k /\ \A i \in 1..(Len(g) - k) : h[i] = g[k + i]
      OBVIOUS
    <3>2. c \in Seq(Token) /\ v \in Nat /\ v <= Len(c)
      BY <1>1, <1>2
    <3> QED
      BY ONLY <3>1, <3>2
  <2> HIDE DEF p3
  <2>3. CASE Len(b) = v
    <3>1. p3 \in Seq(Token) /\ Len(p3) = Len(d) /\ \A k \in 1..Len(d) : p3[k] = d[k]
      BY <2>2, <2>3, <1>1, <1>2
    <3>2. p3 = d
      BY ONLY <3>1, d \in Seq(Token)
    <3>3. d = <<>> \o d
      OBVIOUS
    <3> QED
      BY <3>2, <3>3
  <2>4. CASE Len(b) = v + 1 /\ b[v + 1] = Text(r, 3, "xx")
    <3> DEFINE t == <<Text(r, 3, "xx")>>
               e == t \o d
    <3>1. t \in Seq(Token)
      <4>1. 3 \in Field /\ Text(r, 3, "xx") \in Token
        BY TokensDiffer DEF Field
      <4> QED
        BY <4>1
    <3>2. Len(t) = 1 /\ t[1] = Text(r, 3, "xx")
      OBVIOUS
    <3> HIDE DEF t
    <3>3. /\ e \in Seq(Token) /\ Len(e) = Len(d) + 1 /\ e[1] = Text(r, 3, "xx")
          /\ \A k \in 1..Len(d) : e[k + 1] = d[k]
      <4>1. \A g, h \in Seq(Token) :
               /\ g \o h \in Seq(Token) /\ Len(g \o h) = Len(g) + Len(h)
               /\ \A i \in 1..Len(g) : (g \o h)[i] = g[i]
               /\ \A i \in 1..Len(h) : (g \o h)[Len(g) + i] = h[i]
        OBVIOUS
      <4>2. /\ e \in Seq(Token) /\ Len(e) = Len(t) + Len(d)
            /\ \A i \in 1..Len(t) : e[i] = t[i]
            /\ \A i \in 1..Len(d) : e[Len(t) + i] = d[i]
        BY ONLY <4>1, <3>1, d \in Seq(Token), Zenon
      <4>3. 1 \in 1..1 /\ \A k \in 1..Len(d) : 1 + k = k + 1
        BY <1>2
      <4> HIDE DEF e
      <4> QED
        BY ONLY <4>2, <4>3, <3>2, <1>2
    <3> HIDE DEF e
    <3>4. Len(p3) = Len(d) + 1 /\ v + 1 \in 1..Len(b)
      BY <2>2, <2>4, <1>1, <1>2
    <3>5. ASSUME NEW k \in 1..(Len(d) + 1) PROVE p3[k] = e[k]
      <4>1. p3[k] = c[v + k]
        BY <2>2, <3>4
      <4>2. CASE k = 1
        BY <4>1, <4>2, <3>3, <3>4, <2>4, <1>2
      <4>3. CASE k # 1
        <5>1. k - 1 \in 1..Len(d) /\ v + k = Len(b) + (k - 1) /\ k = (k - 1) + 1
          BY <4>3, <2>4, <1>1, <1>2
        <5>2. c[Len(b) + (k - 1)] = d[k - 1] /\ e[(k - 1) + 1] = d[k - 1]
          BY ONLY <5>1, <1>2, <3>3
        <5> QED
          BY ONLY <4>1, <5>1, <5>2
      <4> QED
        BY <4>2, <4>3
    <3>6. p3 = e
      BY ONLY <2>2, <3>3, <3>4, <3>5
    <3> QED
      BY <3>6 DEF e, t
  <2> QED
    BY <2>1, <2>3, <2>4
<1> HIDE DEF p1, p2, p3
<1>11. \A x, y, z : <<x, y, z>>[1] = x /\ <<x, y, z>>[2] = y /\ <<x, y, z>>[3] = z
  OBVIOUS
<1>12. Split(c)[1] = p1 /\ Split(c)[2] = p2 /\ Split(c)[3] = p3
  BY ONLY <1>7, <1>11
<1>13. /\ Split(c)[1] \in {<<>>, <<Text(r, 1, "xx")>>}
       /\ Split(c)[2] \in {<<>>, <<Text(r, 2, "xx")>>}
       /\ \E t \in {<<>>, <<Text(r, 3, "xx")>>} : Split(c)[3] = t \o d
  BY ONLY <1>8, <1>9, <1>10, <1>12, Zenon
<1> QED
  BY <1>13 DEF c

-----------------------------------------------------------------------------
(* Answers.                                                                 *)

(* After the marker at p comes c, and then the end or another marker.       *)
At(ans, p, c) ==
    /\ p + Len(c) <= Len(ans)
    /\ \A k \in 1..Len(c) : ans[p + k] = c[k]
    /\ p + Len(c) = Len(ans) \/ ans[p + Len(c) + 1].kind = "row"

LEMMA BodyAtIs ==
    ASSUME NEW ans \in Seq(Token), NEW p \in MarkersIn(ans), NEW c \in Seq(Token),
           \A k \in 1..Len(c) : c[k].kind # "row", At(ans, p, c)
    PROVE  BodyAt(ans, p) = c
<1> DEFINE e == p + Len(c)
           later == {q \in MarkersIn(ans) : q > p}
           end == IF later = {} THEN Len(ans) ELSE Min(later) - 1
<1>1. /\ p \in Nat /\ 1 <= p /\ p <= Len(ans) /\ Len(c) \in Nat /\ Len(ans) \in Nat
      /\ DOMAIN ans = 1..Len(ans) /\ e \in Nat /\ p <= e /\ e <= Len(ans)
      /\ MarkersIn(ans) \subseteq 1..Len(ans)
  BY SMTT(30) DEF MarkersIn, At
<1>2. ASSUME NEW q \in later PROVE q > e
  <2>1. q \in 1..Len(ans) /\ q > p /\ ans[q].kind = "row"
    BY <1>1 DEF MarkersIn
  <2>2. ASSUME q <= e PROVE FALSE
    <3>1. q - p \in 1..Len(c) /\ p + (q - p) = q
      BY <2>1, <2>2, <1>1
    <3>2. ans[p + (q - p)] = c[q - p]
      BY <3>1 DEF At
    <3> QED
      BY <3>1, <3>2, <2>1
  <2> QED
    BY <2>1, <2>2, <1>1
<1>3. end = e
  <2>1. CASE e = Len(ans)
    <3>1. later = {}
      BY <1>1, <1>2, <2>1
    <3> QED
      BY <3>1, <2>1
  <2>2. CASE e # Len(ans)
    <3>0. \A x, y, z \in Nat : 1 <= x /\ x <= y /\ y <= z /\ y # z => y + 1 \in 1..z /\ y + 1 > x
      OBVIOUS
    <3>1a. ans[e + 1].kind = "row"
      BY ONLY <2>2, At(ans, p, c) DEF At
    <3> HIDE DEF e
    <3>1. e + 1 \in 1..Len(ans) /\ ans[e + 1].kind = "row" /\ e + 1 > p
      BY ONLY <1>1, <2>2, <3>0, <3>1a
    <3>2. e + 1 \in later
      BY <3>1, <1>1 DEF MarkersIn
    <3>3. later \in SUBSET Nat /\ later # {}
      BY <1>1, <3>2
    <3>4. Min(later) \in later /\ Min(later) <= e + 1
      BY ONLY <3>2, <3>3, MinOf
    <3>5. Min(later) > e /\ Min(later) \in Nat
      BY <3>3, <3>4, <1>2
    <3>6. end = Min(later) - 1
      BY <3>3
    <3> HIDE DEF end, later
    <3> QED
      BY ONLY <3>4, <3>5, <3>6, <1>1, SMTT(30)
  <2> QED
    BY <2>1, <2>2
<1>4. BodyAt(ans, p) = SubSeq(ans, p + 1, e)
  BY <1>3 DEF BodyAt
<1> DEFINE d == SubSeq(ans, p + 1, e)
<1>5. d \in Seq(Token) /\ Len(d) = Len(c) /\ \A k \in 1..Len(c) : d[k] = ans[p + k]
  BY <1>1
<1>6. d \in Seq(Token) /\ Len(d) = Len(c) /\ \A k \in 1..Len(c) : d[k] = c[k]
  BY <1>5 DEF At
<1> HIDE DEF d
<1>7. d = c
  BY ONLY <1>6, c \in Seq(Token)
<1> QED
  BY <1>4, <1>7 DEF d

(* What may stand behind the marker of the i-th row: what is left of its    *)
(* body, or its body and the next one, whose marker was lost.               *)
Remains(a, n, i) ==
    IF i < n /\ "lost_marker" \in Damages
      THEN Damaged(Body(a + i - 1, "xx")) \cup {Body(a + i - 1, "xx") \o Body(a + i, "xx")}
      ELSE Damaged(Body(a + i - 1, "xx"))
Sound(ans, a, n) ==
    /\ ans \in Seq(Token)
    /\ \A p \in MarkersIn(ans) : \E i \in 1..n : \E c \in Remains(a, n, i) :
          ans[p] = Marker(i) /\ At(ans, p, c)
(* In an answer that lost no token, it is all of the body.                  *)
Whole(ans, a, n) ==
    /\ ans \in Seq(Token)
    /\ \A p \in MarkersIn(ans) : \E i \in 1..n :
          ans[p] = Marker(i) /\ At(ans, p, Body(a + i - 1, "xx"))

LEMMA WholeIsSound ==
    ASSUME NEW a \in Nat \ {0}, NEW n \in Nat, NEW ans, Whole(ans, a, n)
    PROVE  Sound(ans, a, n)
<1>1. ASSUME NEW i \in 1..n PROVE Body(a + i - 1, "xx") \in Damaged(Body(a + i - 1, "xx"))
  <2> DEFINE b == Body(a + i - 1, "xx")
  <2>1. a + i - 1 \in Nat
    OBVIOUS
  <2>2. b \in Seq(Token)
    BY <2>1, BodyType
  <2> HIDE DEF b
  <2>3. b = SubSeq(b, 1, Len(b)) /\ Len(b) \in 0..Len(b)
    BY <2>2
  <2>4. b \in Damaged(b)
    BY <2>3 DEF Damaged
  <2> QED
    BY <2>4 DEF b
<1> QED
  BY <1>1 DEF Whole, Sound, Remains

(* Blocks in any order make a whole answer.                                 *)
LEMMA JoinedIsWhole ==
    ASSUME NEW a \in Nat \ {0}, NEW n \in Nat, NEW ans, Whole(ans, a, n), NEW i \in 1..n
    PROVE  Whole(ans \o (<<Marker(i)>> \o Body(a + i - 1, "xx")), a, n)
<1> DEFINE r == a + i - 1
           b == Body(r, "xx")
           m == Marker(i)
           l == <<m>> \o b
           w == ans \o l
<1>0. r \in Nat /\ i \in Nat
  OBVIOUS
<1>1. PICK u, v : Shape(b, r, u, v)
  BY <1>0, BodyIs
<1>2. b \in Seq(Token) /\ \A k \in 1..Len(b) : b[k].kind # "row"
  <2>1. b \in Seq(Token)
    BY <1>1 DEF Shape
  <2> HIDE DEF b
  <2> QED
    BY ONLY <1>0, <1>1, <2>1, ShapeIs
<1>3. m \in Token /\ m.kind = "row"
  BY <1>0, TokensDiffer
<1> HIDE DEF b, m, r
<1>4. /\ l \in Seq(Token) /\ Len(l) = Len(b) + 1 /\ l[1] = m
      /\ \A k \in 1..Len(b) : l[k + 1] = b[k]
  BY <1>2, <1>3
<1> HIDE DEF l
<1>5. ans \in Seq(Token) /\ Len(ans) \in Nat /\ Len(b) \in Nat
  BY <1>2 DEF Whole
<1>6. /\ w \in Seq(Token) /\ Len(w) = Len(ans) + Len(l)
      /\ \A k \in 1..Len(ans) : w[k] = ans[k]
      /\ \A k \in 1..Len(l) : w[Len(ans) + k] = l[k]
  <2>1. l \in Seq(Token) /\ ans \in Seq(Token)
    BY <1>4, <1>5
  <2> QED
    BY ONLY <2>1
<1> HIDE DEF w
<1>7. Len(w) = Len(ans) + Len(b) + 1 /\ w[Len(ans) + 1] = m
  BY <1>4, <1>5, <1>6
<1>8. \A k \in 1..Len(b) : w[Len(ans) + 1 + k] = b[k]
  <2>1. ASSUME NEW k \in 1..Len(b) PROVE w[Len(ans) + 1 + k] = b[k]
    <3>1. k + 1 \in 1..Len(l) /\ Len(ans) + 1 + k = Len(ans) + (k + 1)
      BY <1>4, <1>5
    <3> QED
      BY <3>1, <1>4, <1>6
  <2> QED
    BY <2>1
<1>9. ASSUME NEW p \in MarkersIn(w)
      PROVE  \E j \in 1..n : w[p] = Marker(j) /\ At(w, p, Body(a + j - 1, "xx"))
  <2>0. p \in 1..Len(w) /\ w[p].kind = "row" /\ p \in Int
    BY <1>5, <1>6 DEF MarkersIn
  <2>1. CASE p <= Len(ans)
    <3>1. p \in MarkersIn(ans) /\ w[p] = ans[p]
      BY <2>0, <2>1, <1>5, <1>6 DEF MarkersIn
    <3>2. PICK j \in 1..n : ans[p] = Marker(j) /\ At(ans, p, Body(a + j - 1, "xx"))
      BY <3>1 DEF Whole
    <3> DEFINE c == Body(a + j - 1, "xx")
    <3>3. a + j - 1 \in Nat
      OBVIOUS
    <3>4. c \in Seq(Token)
      BY <3>3, BodyType
    <3> HIDE DEF c
    <3>5. /\ Len(c) \in Nat /\ p + Len(c) <= Len(ans) /\ \A k \in 1..Len(c) : ans[p + k] = c[k]
          /\ p + Len(c) = Len(ans) \/ ans[p + Len(c) + 1].kind = "row"
      BY <3>2, <3>4 DEF At, c
    <3>6. ASSUME NEW k \in 1..Len(c) PROVE w[p + k] = c[k]
      <4>1. p + k \in 1..Len(ans)
        BY <3>5, <2>0, <1>5
      <4> QED
        BY <4>1, <3>5, <1>6
    <3>7. w[p + Len(c) + 1].kind = "row"
      <4>1. CASE p + Len(c) = Len(ans)
        BY <4>1, <1>7, <1>3
      <4>2. CASE p + Len(c) # Len(ans)
        <5>1. p + Len(c) + 1 \in 1..Len(ans)
          BY <4>2, <3>5, <2>0, <1>5
        <5> QED
          BY <5>1, <4>2, <3>5, <1>6
      <4> QED
        BY <4>1, <4>2
    <3>8. p + Len(c) <= Len(w)
      BY <3>5, <2>0, <1>5, <1>7
    <3>9. At(w, p, c)
      BY <3>6, <3>7, <3>8 DEF At
    <3> QED
      BY <3>1, <3>2, <3>9 DEF c
  <2>2. CASE p = Len(ans) + 1
    <3>1. At(w, p, b)
      BY <2>2, <1>5, <1>7, <1>8 DEF At
    <3> QED
      BY <3>1, <2>2, <1>7 DEF b, m, r
  <2>3. CASE p > Len(ans) + 1
    <3>1. p - (Len(ans) + 1) \in 1..Len(b) /\ Len(ans) + 1 + (p - (Len(ans) + 1)) = p
      BY <2>0, <2>3, <1>5, <1>7
    <3> QED
      BY <3>1, <1>2, <1>8, <2>0
  <2> QED
    BY <2>0, <2>1, <2>2, <2>3, <1>5
<1>10. Whole(w, a, n)
  BY <1>6, <1>9 DEF Whole
<1> QED
  BY <1>10 DEF w, l, b, m, r

LEMMA FlatIsWhole ==
    ASSUME NEW a \in Nat \ {0}, NEW n \in Nat, NEW s \in Seq(Seq(Token)),
           \A k \in 1..Len(s) : \E i \in 1..n : s[k] = <<Marker(i)>> \o Body(a + i - 1, "xx")
    PROVE  Whole(FlattenSeq(s), a, n)
<1>1. Whole(<<>>, a, n)
  BY DEF Whole, MarkersIn
<1>2. CASE s = <<>>
  <2>1. FlattenSeq(s) = <<>>
    BY <1>2 DEF FlattenSeq
  <2> QED
    BY <2>1, <1>1
<1>3. CASE s # <<>>
  <2>1. PICK g \in [1..Len(s) -> Seq(Token)] : Join(s, g) /\ FlattenSeq(s) = g[Len(s)]
    BY <1>3, FlattenIsJoin
  <2> DEFINE P == {k \in 0..Len(s) : k # 0 => Whole(g[k], a, n)}
  <2>2. 0 \in P
    OBVIOUS
  <2>3. ASSUME NEW k \in P, k < Len(s) PROVE k + 1 \in P
    <3>1. k + 1 \in 1..Len(s) /\ k + 1 \in 0..Len(s) /\ k \in Nat
      BY <2>3
    <3>2. PICK i \in 1..n : s[k + 1] = <<Marker(i)>> \o Body(a + i - 1, "xx")
      BY <3>1
    <3> DEFINE l == <<Marker(i)>> \o Body(a + i - 1, "xx")
    <3>3. CASE k = 0
      <4>1. g[k + 1] = s[k + 1]
        <5>1. k + 1 = 1 /\ 1 \in 1..Len(s) /\ DOMAIN g = 1..Len(s)
          BY <3>1, <3>3
        <5>2. g[1] = s[1]
          BY ONLY <5>1, <2>1 DEF Join
        <5> QED
          BY <5>1, <5>2
      <4>2. Whole(<<>> \o l, a, n)
        BY <1>1, JoinedIsWhole
      <4>3. <<>> \o l = l
        <5>1. s[k + 1] \in Seq(Token)
          BY <3>1
        <5>2. l \in Seq(Token)
          BY <5>1, <3>2
        <5> HIDE DEF l
        <5> QED
          BY ONLY <5>2
      <4> HIDE DEF l
      <4>4. Whole(g[k + 1], a, n)
        BY <4>1, <4>2, <4>3, <3>2 DEF l
      <4> QED
        BY <4>4, <3>1
    <3>4. CASE k # 0
      <4>1. k \in 1..Len(s) /\ (k + 1) - 1 = k /\ k + 1 # 1
        BY <3>1, <3>4, <2>3
      <4>2. g[k + 1] = g[k] \o s[k + 1]
        BY <2>1, <3>1, <4>1 DEF Join
      <4>3. Whole(g[k], a, n)
        BY <3>4
      <4>4. Whole(g[k] \o l, a, n)
        BY <4>3, JoinedIsWhole
      <4>5. Whole(g[k + 1], a, n)
        BY <4>2, <4>4, <3>2
      <4> QED
        BY <4>5, <3>1
    <3> QED
      BY <3>3, <3>4
  <2>4. 0..Len(s) \subseteq P
    <3> HIDE DEF P
    <3> QED
      BY <2>2, <2>3, Induction
  <2>5. Len(s) \in 0..Len(s) /\ Len(s) # 0
    BY <1>3
  <2> QED
    BY <2>1, <2>4, <2>5
<1> QED
  BY <1>2, <1>3

(* An answer cut anywhere.                                                  *)
LEMMA CutIsSound ==
    ASSUME NEW a \in Nat \ {0}, NEW n \in Nat, NEW w, Whole(w, a, n), NEW l \in 0..Len(w)
    PROVE  Sound(SubSeq(w, 1, l), a, n)
<1> DEFINE x == SubSeq(w, 1, l)
<1>1. w \in Seq(Token) /\ Len(w) \in Nat /\ l \in Nat /\ l <= Len(w)
  BY DEF Whole
<1>2. x \in Seq(Token) /\ Len(x) = l /\ DOMAIN x = 1..l /\ \A k \in 1..l : x[k] = w[k]
  BY <1>1
<1> HIDE DEF x
<1>3. ASSUME NEW p \in MarkersIn(x)
      PROVE  \E i \in 1..n : \E c \in Damaged(Body(a + i - 1, "xx")) : x[p] = Marker(i) /\ At(x, p, c)
  <2>1. p \in 1..l /\ p \in MarkersIn(w) /\ x[p] = w[p]
    BY <1>1, <1>2 DEF MarkersIn
  <2>2. PICK i \in 1..n : w[p] = Marker(i) /\ At(w, p, Body(a + i - 1, "xx"))
    BY <2>1 DEF Whole
  <2> DEFINE b == Body(a + i - 1, "xx")
             j == IF p + Len(b) <= l THEN Len(b) ELSE l - p
             c == SubSeq(b, 1, j)
  <2>3. a + i - 1 \in Nat
    OBVIOUS
  <2>4. b \in Seq(Token) /\ Len(b) \in Nat
    BY ONLY <2>3, BodyType, Zenon
  <2>5. At(w, p, b)
    BY <2>2
  <2> HIDE DEF b
  <2>6. j \in 0..Len(b) /\ p + j <= l
    BY <2>1, <2>4, <1>1
  <2>7. c \in Seq(Token) /\ Len(c) = j /\ \A k \in 1..j : c[k] = b[k]
    <3> HIDE DEF j
    <3> QED
      BY <2>4, <2>6
  <2>8. c \in Damaged(b)
    BY <2>6 DEF Damaged
  <2>9. \A k \in 1..j : x[p + k] = c[k]
    <3>1. ASSUME NEW k \in 1..j PROVE x[p + k] = c[k]
      <4>1. p + k \in 1..l /\ k \in 1..Len(b)
        BY <2>1, <2>4, <2>6
      <4> HIDE DEF j, c
      <4> QED
        BY <4>1, <1>2, <2>5, <2>7 DEF At
    <3> QED
      BY <3>1
  <2>10. p + j = l \/ x[p + j + 1].kind = "row"
    <3>1. CASE p + Len(b) < l
      <4>1. j = Len(b) /\ p + j + 1 \in 1..l /\ p + Len(b) # Len(w)
        BY <3>1, <2>1, <2>4, <1>1
      <4>2. w[p + Len(b) + 1].kind = "row"
        BY <4>1, <2>5 DEF At
      <4> HIDE DEF j
      <4> QED
        BY <4>1, <4>2, <1>2
    <3>2. CASE ~(p + Len(b) < l)
      BY <3>2, <2>1, <2>4, <1>1, SMTT(30)
    <3> QED
      BY <3>1, <3>2
  <2>11. At(x, p, c)
    <3> HIDE DEF j, c
    <3> QED
      BY <1>2, <2>6, <2>7, <2>9, <2>10 DEF At
  <2> QED
    BY <2>1, <2>2, <2>8, <2>11 DEF b
<1> QED
  BY <1>2, <1>3 DEF Sound, Remains, x

(* An answer that lost a field separator.                                   *)
LEMMA LostSepIsSound ==
    ASSUME NEW a \in Nat \ {0}, NEW n \in Nat, NEW w, Whole(w, a, n),
           NEW q \in DOMAIN w, w[q].kind = "fld"
    PROVE  Sound(RemoveAt(w, q), a, n)
<1> DEFINE x == RemoveAt(w, q)
<1>1. w \in Seq(Token) /\ DOMAIN w = 1..Len(w)
  BY DEF Whole
<1>1a. Len(w) \in Nat /\ q \in 1..Len(w) /\ q \in Int
  BY <1>1
<1>2. /\ x \in Seq(Token) /\ Len(x) = Len(w) - 1
      /\ \A k \in 1..(Len(w) - 1) : /\ k \in Int /\ (k < q => x[k] = w[k])
                                    /\ k >= q => x[k] = w[k + 1]
  BY ONLY <1>1, <1>1a, RemoveAtIs, Zenon
<1>3. w[q] = Sep
  BY <1>1, TokensDiffer
<1> HIDE DEF x
<1>4. ASSUME NEW p \in MarkersIn(x)
      PROVE  \E i \in 1..n : \E c \in Damaged(Body(a + i - 1, "xx")) : x[p] = Marker(i) /\ At(x, p, c)
  <2>1. p \in 1..(Len(w) - 1) /\ p \in Int /\ x[p].kind = "row"
    BY <1>1a, <1>2 DEF MarkersIn
  <2> DEFINE o == IF p < q THEN p ELSE p + 1
  <2>2. o \in 1..Len(w) /\ x[p] = w[o] /\ o \in MarkersIn(w)
    BY <2>1, <1>1, <1>1a, <1>2 DEF MarkersIn
  <2>3. PICK i \in 1..n : w[o] = Marker(i) /\ At(w, o, Body(a + i - 1, "xx"))
    BY <2>2 DEF Whole
  <2> DEFINE b == Body(a + i - 1, "xx")
  <2>4. a + i - 1 \in Nat
    OBVIOUS
  <2>5. b \in Seq(Token) /\ Len(b) \in Nat /\ DOMAIN b = 1..Len(b)
    BY ONLY <2>4, BodyType, Zenon
  <2>6. At(w, o, b)
    BY <2>3
  <2> HIDE DEF b
  <2>7. /\ o + Len(b) <= Len(w) /\ \A k \in 1..Len(b) : w[o + k] = b[k]
        /\ o + Len(b) = Len(w) \/ w[o + Len(b) + 1].kind = "row"
    BY <2>6 DEF At
  <2>8. w[q].kind # "row"
    OBVIOUS
  <2>9. CASE p < q /\ q <= p + Len(b)
    <3> DEFINE j == q - p
               c == RemoveAt(b, j)
    <3>1. o = p /\ j \in 1..Len(b) /\ p + j = q
      BY <2>9, <2>1, <2>5, <1>1a
    <3>2. b[j] = Sep
      BY <3>1, <2>7, <1>3
    <3>3. c \in Damaged(b)
      BY <3>1, <3>2, <2>5 DEF Damaged, SepsIn
    <3> HIDE DEF j
    <3>4. /\ Len(c) = Len(b) - 1
          /\ \A k \in 1..(Len(b) - 1) : /\ k \in Int /\ (k < j => c[k] = b[k])
                                        /\ k >= j => c[k] = b[k + 1]
      BY ONLY <3>1, <2>5, RemoveAtIs, Zenon
    <3> HIDE DEF c
    <3>5. ASSUME NEW k \in 1..Len(c) PROVE x[p + k] = c[k]
      <4>1. k \in 1..(Len(b) - 1) /\ k \in Int /\ k \in 1..Len(b) /\ k + 1 \in 1..Len(b)
        BY <3>4, <2>5
      <4>2. p + k \in 1..(Len(w) - 1) /\ j \in Int
        BY <4>1, <3>1, <2>1, <2>5, <2>7, <1>1a
      <4>3. CASE k < j
        <5>1. p + k < q
          BY <4>1, <4>2, <4>3, <3>1, <2>1, <1>1a
        <5>2. x[p + k] = w[p + k] /\ w[p + k] = b[k] /\ c[k] = b[k]
          BY <5>1, <4>1, <4>2, <4>3, <3>1, <3>4, <2>7, <1>2
        <5> QED
          BY <5>2
      <4>4. CASE k >= j
        <5>1. p + k >= q /\ p + k + 1 = p + (k + 1)
          BY <4>1, <4>2, <4>4, <3>1, <2>1, <1>1a
        <5>2. x[p + k] = w[p + k + 1] /\ w[p + (k + 1)] = b[k + 1] /\ c[k] = b[k + 1]
          BY <5>1, <4>1, <4>2, <4>4, <3>1, <3>4, <2>7, <1>2
        <5> QED
          BY <5>1, <5>2
      <4> QED
        BY <4>1, <4>2, <4>3, <4>4
    <3>6. p + Len(c) <= Len(x)
      BY <3>1, <3>4, <2>1, <2>5, <2>7, <1>1a, <1>2
    <3>7. ASSUME p + Len(c) # Len(x) PROVE x[p + Len(c) + 1].kind = "row"
      <4>1. o + Len(b) # Len(w) /\ p + Len(c) + 1 = p + Len(b)
        BY <3>7, <3>1, <3>4, <2>1, <2>5, <1>1a, <1>2
      <4>2. p + Len(b) \in 1..(Len(w) - 1) /\ p + Len(b) >= q
        BY <4>1, <3>1, <2>1, <2>5, <2>7, <2>9, <1>1a
      <4>3. x[p + Len(b)] = w[p + Len(b) + 1]
        BY <4>2, <1>2
      <4> QED
        BY <4>1, <4>3, <3>1, <2>7
    <3>8. At(x, p, c)
      BY <3>5, <3>6, <3>7 DEF At
    <3> QED
      BY <2>2, <2>3, <3>3, <3>8 DEF b
  <2>10. CASE ~(p < q /\ q <= p + Len(b))
    <3>1. b \in Damaged(b)
      <4>1. b = SubSeq(b, 1, Len(b)) /\ Len(b) \in 0..Len(b)
        BY <2>5
      <4> QED
        BY <4>1 DEF Damaged
    <3>2. CASE p < q
      <4>1. o = p /\ p + Len(b) < q
        BY <3>2, <2>10, <2>1, <2>5, <1>1a
      <4>2. \A k \in 1..Len(b) : p + k \in 1..(Len(w) - 1) /\ p + k < q
        BY <4>1, <2>1, <2>5, <1>1a
      <4>3. \A k \in 1..Len(b) : x[p + k] = b[k]
        BY <4>1, <4>2, <2>7, <1>2
      <4>4. p + Len(b) <= Len(x) /\ p + Len(b) # Len(w)
        BY <4>1, <2>1, <2>5, <1>1a, <1>2, SMTT(30)
      <4>5. w[p + Len(b) + 1].kind = "row" /\ p + Len(b) + 1 # q
        BY <4>1, <4>4, <2>7, <2>8
      <4>6. p + Len(b) + 1 \in 1..(Len(w) - 1) /\ p + Len(b) + 1 < q
        BY <4>1, <4>5, <2>1, <2>5, <1>1a
      <4>7. x[p + Len(b) + 1].kind = "row"
        BY <4>5, <4>6, <1>2
      <4>8. At(x, p, b)
        BY <4>3, <4>4, <4>7 DEF At
      <4> QED
        BY <2>2, <2>3, <3>1, <4>8 DEF b
    <3>3. CASE p >= q
      <4>1. o = p + 1
        BY <3>3, <2>1, <1>1a
      <4>2. \A k \in 1..Len(b) : /\ p + k \in 1..(Len(w) - 1) /\ p + k >= q
                                 /\ p + k + 1 = o + k
        BY <4>1, <3>3, <2>1, <2>5, <2>7, <1>1a
      <4>3. ASSUME NEW k \in 1..Len(b) PROVE x[p + k] = b[k]
        <5>1. x[p + k] = w[p + k + 1]
          BY <4>2, <1>2
        <5> QED
          BY <5>1, <4>2, <2>7
      <4>4. p + Len(b) <= Len(x)
        BY <4>1, <2>1, <2>5, <2>7, <1>1a, <1>2
      <4>5. ASSUME p + Len(b) # Len(x) PROVE x[p + Len(b) + 1].kind = "row"
        <5>1. /\ o + Len(b) # Len(w) /\ p + Len(b) + 1 \in 1..(Len(w) - 1)
              /\ p + Len(b) + 1 >= q /\ p + Len(b) + 1 + 1 = o + Len(b) + 1
          <6>1. p + Len(b) <= Len(w) - 1 /\ p + Len(b) # Len(w) - 1
            BY <4>4, <4>5, <1>2
          <6>2. \A g, h, k, l \in Int : g >= 1 /\ h >= 0 /\ g >= l /\ g + h <= k - 1 /\ g + h # k - 1
                  => /\ (g + 1) + h # k /\ g + h + 1 \in 1..(k - 1)
                     /\ g + h + 1 >= l /\ g + h + 1 + 1 = (g + 1) + h + 1
            OBVIOUS
          <6>3. Len(b) \in Int /\ Len(b) >= 0 /\ p >= 1 /\ p \in Int /\ Len(w) \in Int
            BY <2>1, <2>5, <1>1a
          <6>4. /\ (p + 1) + Len(b) # Len(w) /\ p + Len(b) + 1 \in 1..(Len(w) - 1)
                /\ p + Len(b) + 1 >= q /\ p + Len(b) + 1 + 1 = (p + 1) + Len(b) + 1
            BY ONLY <6>1, <6>2, <6>3, <3>3, <1>1a, Zenon
          <6> HIDE DEF o
          <6> QED
            BY ONLY <6>4, <4>1
        <5>2. x[p + Len(b) + 1] = w[p + Len(b) + 1 + 1]
          BY <5>1, <1>2
        <5> QED
          BY <5>1, <5>2, <2>7
      <4>6. At(x, p, b)
        BY <4>3, <4>4, <4>5 DEF At
      <4> QED
        BY <2>2, <2>3, <3>1, <4>6 DEF b
    <3> QED
      BY <3>2, <3>3, <2>1, <1>1a, SMTT(30)
  <2> QED
    BY <2>9, <2>10
<1> QED
  BY <1>2, <1>4 DEF Sound, Remains, x

(* The blocks in order: behind the i-th body comes the next marker.         *)
Ordered(w, a, n) ==
    /\ w \in Seq(Token)
    /\ \A p \in MarkersIn(w) : \E i \in 1..n :
          LET e == p + Len(Body(a + i - 1, "xx"))
          IN  /\ w[p] = Marker(i) /\ At(w, p, Body(a + i - 1, "xx"))
              /\ IF i = n THEN e = Len(w) ELSE e # Len(w) /\ w[e + 1] = Marker(i + 1)

LEMMA JoinedIsOrdered ==
    ASSUME NEW a \in Nat \ {0}, NEW n \in Nat, NEW ans, Ordered(ans, a, n)
    PROVE  Ordered(ans \o (<<Marker(n + 1)>> \o Body(a + n, "xx")), a, n + 1)
<1> DEFINE b == Body(a + n, "xx")
           m == Marker(n + 1)
           l == <<m>> \o b
           w == ans \o l
<1>0. a + n \in Nat /\ n + 1 \in Nat /\ a + (n + 1) - 1 = a + n /\ n + 1 \in 1..(n + 1)
  OBVIOUS
<1>1. PICK u, v : Shape(b, a + n, u, v)
  BY <1>0, BodyIs
<1>2. b \in Seq(Token) /\ \A k \in 1..Len(b) : b[k].kind # "row"
  <2>1. b \in Seq(Token)
    BY <1>1 DEF Shape
  <2> HIDE DEF b
  <2> QED
    BY ONLY <1>0, <1>1, <2>1, ShapeIs
<1>3. m \in Token /\ m.kind = "row"
  BY <1>0, TokensDiffer
<1> HIDE DEF b, m
<1>4. /\ l \in Seq(Token) /\ Len(l) = Len(b) + 1 /\ l[1] = m
      /\ \A k \in 1..Len(b) : l[k + 1] = b[k]
  BY <1>2, <1>3
<1> HIDE DEF l
<1>5. ans \in Seq(Token) /\ Len(ans) \in Nat /\ Len(b) \in Nat
  BY <1>2 DEF Ordered
<1>6. /\ w \in Seq(Token) /\ Len(w) = Len(ans) + Len(l)
      /\ \A k \in 1..Len(ans) : w[k] = ans[k]
      /\ \A k \in 1..Len(l) : w[Len(ans) + k] = l[k]
  <2>1. l \in Seq(Token) /\ ans \in Seq(Token)
    BY <1>4, <1>5
  <2> QED
    BY ONLY <2>1
<1> HIDE DEF w
<1>7. Len(w) = Len(ans) + Len(b) + 1 /\ w[Len(ans) + 1] = m
  BY <1>4, <1>5, <1>6
<1>8. \A k \in 1..Len(b) : w[Len(ans) + 1 + k] = b[k]
  <2>1. ASSUME NEW k \in 1..Len(b) PROVE w[Len(ans) + 1 + k] = b[k]
    <3>1. k + 1 \in 1..Len(l) /\ Len(ans) + 1 + k = Len(ans) + (k + 1)
      BY <1>4, <1>5
    <3> QED
      BY <3>1, <1>4, <1>6
  <2> QED
    BY <2>1
<1>9. ASSUME NEW p \in MarkersIn(w)
      PROVE  \E j \in 1..(n + 1) :
               LET e == p + Len(Body(a + j - 1, "xx"))
               IN  /\ w[p] = Marker(j) /\ At(w, p, Body(a + j - 1, "xx"))
                   /\ IF j = n + 1 THEN e = Len(w) ELSE e # Len(w) /\ w[e + 1] = Marker(j + 1)
  <2>0. p \in 1..Len(w) /\ w[p].kind = "row" /\ p \in Int
    BY <1>5, <1>6 DEF MarkersIn
  <2>1. CASE p <= Len(ans)
    <3>1. p \in MarkersIn(ans) /\ w[p] = ans[p]
      BY <2>0, <2>1, <1>5, <1>6 DEF MarkersIn
    <3>2. PICK j \in 1..n :
            LET e == p + Len(Body(a + j - 1, "xx"))
            IN  /\ ans[p] = Marker(j) /\ At(ans, p, Body(a + j - 1, "xx"))
                /\ IF j = n THEN e = Len(ans) ELSE e # Len(ans) /\ ans[e + 1] = Marker(j + 1)
      BY <3>1 DEF Ordered
    <3> DEFINE c == Body(a + j - 1, "xx")
    <3>3. a + j - 1 \in Nat /\ j \in 1..(n + 1) /\ j # n + 1
      OBVIOUS
    <3>4. c \in Seq(Token)
      BY <3>3, BodyType
    <3>5a. At(ans, p, c) /\ ans[p] = Marker(j)
           /\ IF j = n THEN p + Len(c) = Len(ans)
              ELSE p + Len(c) # Len(ans) /\ ans[p + Len(c) + 1] = Marker(j + 1)
      BY <3>2
    <3> HIDE DEF c
    <3>5. Len(c) \in Nat /\ p + Len(c) <= Len(ans) /\ \A k \in 1..Len(c) : ans[p + k] = c[k]
      BY <3>5a, <3>4 DEF At
    <3>6. ASSUME NEW k \in 1..Len(c) PROVE w[p + k] = c[k]
      <4>1. p + k \in 1..Len(ans)
        BY <3>5, <2>0, <1>5
      <4> QED
        BY <4>1, <3>5, <1>6
    <3>7. w[p + Len(c) + 1] = Marker(j + 1)
      <4>1. CASE j = n
        BY <4>1, <3>5a, <1>7 DEF m
      <4>2. CASE j # n
        <5>1. p + Len(c) + 1 \in 1..Len(ans)
          BY <4>2, <3>5a, <3>5, <2>0, <1>5
        <5> QED
          BY <5>1, <4>2, <3>5a, <1>6
      <4> QED
        BY <4>1, <4>2
    <3>8. p + Len(c) <= Len(w) /\ p + Len(c) # Len(w)
      BY <3>5, <2>0, <1>5, <1>7
    <3>9. Marker(j + 1).kind = "row"
      BY <3>3, TokensDiffer
    <3>10. At(w, p, c)
      BY <3>6, <3>7, <3>8, <3>9 DEF At
    <3>11. w[p] = Marker(j) /\ j # n + 1
      BY <3>1, <3>3, <3>5a
    <3> QED
      BY <3>3, <3>7, <3>8, <3>10, <3>11 DEF c
  <2>2. CASE p = Len(ans) + 1
    <3>1. At(w, p, b) /\ p + Len(b) = Len(w)
      BY <2>2, <1>5, <1>7, <1>8 DEF At
    <3>2. w[p] = Marker(n + 1)
      BY <2>2, <1>7 DEF m
    <3> QED
      BY <3>1, <3>2, <1>0 DEF b
  <2>3. CASE p > Len(ans) + 1
    <3>1. p - (Len(ans) + 1) \in 1..Len(b) /\ Len(ans) + 1 + (p - (Len(ans) + 1)) = p
      BY <2>0, <2>3, <1>5, <1>7
    <3> QED
      BY <3>1, <1>2, <1>8, <2>0
  <2> QED
    BY <2>0, <2>1, <2>2, <2>3, <1>5
<1>10. Ordered(w, a, n + 1)
  BY <1>6, <1>9 DEF Ordered
<1> QED
  BY <1>10 DEF w, l, b, m

LEMMA FlatIsOrdered ==
    ASSUME NEW a \in Nat \ {0}, NEW s \in Seq(Seq(Token)),
           \A k \in 1..Len(s) : s[k] = <<Marker(k)>> \o Body(a + k - 1, "xx")
    PROVE  Ordered(FlattenSeq(s), a, Len(s))
<1>1. Ordered(<<>>, a, 0)
  BY DEF Ordered, MarkersIn
<1>2. CASE s = <<>>
  <2>1. FlattenSeq(s) = <<>> /\ Len(s) = 0
    BY <1>2 DEF FlattenSeq
  <2> QED
    BY <2>1, <1>1
<1>3. CASE s # <<>>
  <2>1. PICK g \in [1..Len(s) -> Seq(Token)] : Join(s, g) /\ FlattenSeq(s) = g[Len(s)]
    BY <1>3, FlattenIsJoin
  <2> DEFINE P == {k \in 0..Len(s) : k # 0 => Ordered(g[k], a, k)}
  <2>2. 0 \in P
    OBVIOUS
  <2>3. ASSUME NEW k \in P, k < Len(s) PROVE k + 1 \in P
    <3>1. k + 1 \in 1..Len(s) /\ k + 1 \in 0..Len(s) /\ k \in Nat /\ a + (k + 1) - 1 = a + k
      BY <2>3
    <3> DEFINE l == <<Marker(k + 1)>> \o Body(a + k, "xx")
    <3>2. s[k + 1] = l
      BY <3>1
    <3>3. CASE k = 0
      <4>1. g[k + 1] = s[k + 1]
        <5>1. k + 1 = 1 /\ 1 \in 1..Len(s) /\ DOMAIN g = 1..Len(s)
          BY <3>1, <3>3
        <5>2. g[1] = s[1]
          BY ONLY <5>1, <2>1 DEF Join
        <5> QED
          BY <5>1, <5>2
      <4>2. Ordered(<<>> \o l, a, k + 1)
        <5>1. Ordered(<<>>, a, k)
          BY <1>1, <3>3
        <5> QED
          BY ONLY <5>1, <3>1, JoinedIsOrdered, a \in Nat \ {0}
      <4>3. <<>> \o l = l
        <5>1. s[k + 1] \in Seq(Token)
          BY <3>1
        <5>2. l \in Seq(Token)
          BY <5>1, <3>2
        <5> HIDE DEF l
        <5> QED
          BY ONLY <5>2
      <4> HIDE DEF l
      <4>4. Ordered(g[k + 1], a, k + 1)
        BY <4>1, <4>2, <4>3, <3>2
      <4> QED
        BY <4>4, <3>1
    <3>4. CASE k # 0
      <4>1. k \in 1..Len(s) /\ (k + 1) - 1 = k /\ k + 1 # 1
        BY <3>1, <3>4, <2>3
      <4>2. g[k + 1] = g[k] \o s[k + 1]
        BY <2>1, <3>1, <4>1 DEF Join
      <4>3. Ordered(g[k], a, k)
        BY <3>4
      <4>4. Ordered(g[k] \o l, a, k + 1)
        BY ONLY <4>3, <3>1, JoinedIsOrdered, a \in Nat \ {0}
      <4>5. Ordered(g[k + 1], a, k + 1)
        BY <4>2, <4>4, <3>2
      <4> QED
        BY <4>5, <3>1
    <3> QED
      BY <3>3, <3>4
  <2>4. 0..Len(s) \subseteq P
    <3> HIDE DEF P
    <3> QED
      BY <2>2, <2>3, Induction, SMTT(30)
  <2>5. Len(s) \in 0..Len(s) /\ Len(s) # 0
    BY <1>3
  <2> QED
    BY <2>1, <2>4, <2>5
<1> QED
  BY <1>2, <1>3

(* A stretch that is followed by a marker or the end is found again when a  *)
(* token behind that marker, or before the stretch, is lost.                *)
LEMMA StretchStays ==
    ASSUME NEW w \in Seq(Token), NEW q \in 1..Len(w), NEW o \in 1..Len(w), NEW b \in Seq(Token),
           At(w, o, b), q < o \/ q > o + Len(b) + 1
    PROVE  At(RemoveAt(w, q), IF q < o THEN o - 1 ELSE o, b)
<1> DEFINE x == RemoveAt(w, q)
<1>1. Len(w) \in Nat /\ q \in Int /\ o \in Int /\ Len(b) \in Nat /\ 1 <= o /\ 1 <= q /\ q <= Len(w)
  OBVIOUS
<1>2. /\ x \in Seq(Token) /\ Len(x) = Len(w) - 1
      /\ \A k \in 1..(Len(w) - 1) : /\ k \in Int /\ (k < q => x[k] = w[k])
                                    /\ k >= q => x[k] = w[k + 1]
  BY RemoveAtIs
<1> HIDE DEF x
<1>3. /\ o + Len(b) <= Len(w) /\ \A k \in 1..Len(b) : w[o + k] = b[k]
      /\ o + Len(b) = Len(w) \/ w[o + Len(b) + 1].kind = "row"
  BY DEF At
<1>4. CASE q < o
  <2> DEFINE p == o - 1
  <2>1. p \in Int /\ p >= q /\ p + 1 = o
    BY <1>1, <1>4
  <2>2. ASSUME NEW k \in 1..Len(b) PROVE x[p + k] = b[k]
    <3>1. p + k \in 1..(Len(w) - 1) /\ p + k >= q /\ p + k + 1 = o + k
      BY <1>1, <1>3, <1>4
    <3> HIDE DEF p
    <3> QED
      BY <3>1, <1>2, <1>3
  <2>3. p + Len(b) <= Len(x)
    BY <1>1, <1>2, <1>3
  <2>4. ASSUME p + Len(b) # Len(x) PROVE x[p + Len(b) + 1].kind = "row"
    <3>1. /\ o + Len(b) # Len(w) /\ p + Len(b) + 1 \in 1..(Len(w) - 1)
          /\ p + Len(b) + 1 >= q /\ p + Len(b) + 1 + 1 = o + Len(b) + 1
      <4>1. \A g, h, k, l \in Int : g >= 1 /\ h >= 0 /\ l < g /\ l >= 1 /\ (g - 1) + h # k - 1 /\ g + h <= k
              => /\ g + h # k /\ (g - 1) + h + 1 \in 1..(k - 1)
                 /\ (g - 1) + h + 1 >= l /\ (g - 1) + h + 1 + 1 = g + h + 1
        OBVIOUS
      <4>2. Len(b) \in Int /\ Len(b) >= 0 /\ Len(w) \in Int /\ p + Len(b) # Len(w) - 1
        BY <2>4, <1>1, <1>2
      <4> QED
        BY ONLY <4>1, <4>2, <1>1, <1>3, <1>4, Zenon
    <3> HIDE DEF p
    <3>2. x[p + Len(b) + 1] = w[p + Len(b) + 1 + 1]
      BY ONLY <3>1, <1>2
    <3> QED
      BY <3>1, <3>2, <1>3
  <2>5. At(x, p, b)
    <3> HIDE DEF p
    <3> QED
      BY <2>2, <2>3, <2>4 DEF At
  <2> QED
    BY <2>5, <1>4 DEF x
<1>5. CASE q > o + Len(b) + 1
  <2>1. o + Len(b) # Len(w) /\ o + Len(b) <= Len(x) /\ ~(q < o)
    BY <1>1, <1>2, <1>5
  <2>2. ASSUME NEW k \in 1..Len(b) PROVE x[o + k] = b[k]
    <3>1. o + k \in 1..(Len(w) - 1) /\ o + k < q
      BY <1>1, <1>5
    <3> QED
      BY <3>1, <1>2, <1>3
  <2>3. x[o + Len(b) + 1].kind = "row"
    <3>1. o + Len(b) + 1 \in 1..(Len(w) - 1) /\ o + Len(b) + 1 < q
      BY <1>1, <1>5
    <3>2. x[o + Len(b) + 1] = w[o + Len(b) + 1]
      BY ONLY <3>1, <1>2
    <3> QED
      BY <3>2, <2>1, <1>3
  <2>4. At(x, o, b)
    BY <2>1, <2>2, <2>3 DEF At
  <2> QED
    BY <2>1, <2>4 DEF x
<1> QED
  BY <1>4, <1>5

(* An answer that lost a row marker: the body before it runs on into the    *)
(* body behind it.                                                          *)
LEMMA LostMarkerIsSound ==
    ASSUME "lost_marker" \in Damages,
           NEW a \in Nat \ {0}, NEW n \in Nat, NEW w, Ordered(w, a, n),
           NEW q \in DOMAIN w, w[q].kind = "row"
    PROVE  Sound(RemoveAt(w, q), a, n)
<1> DEFINE x == RemoveAt(w, q)
<1>1. w \in Seq(Token) /\ DOMAIN w = 1..Len(w)
  BY DEF Ordered
<1>1a. Len(w) \in Nat /\ q \in 1..Len(w) /\ q \in Int /\ q \in MarkersIn(w)
  BY <1>1 DEF MarkersIn
<1>2. /\ x \in Seq(Token) /\ Len(x) = Len(w) - 1
      /\ \A k \in 1..(Len(w) - 1) : /\ k \in Int /\ (k < q => x[k] = w[k])
                                    /\ k >= q => x[k] = w[k + 1]
  BY ONLY <1>1, <1>1a, RemoveAtIs, Zenon
<1>3. ASSUME NEW p \in MarkersIn(x)
      PROVE  \E i \in 1..n : \E c \in Remains(a, n, i) : x[p] = Marker(i) /\ At(x, p, c)
  <2>0. DOMAIN x = 1..Len(x)
    BY <1>2
  <2> HIDE DEF x
  <2>1. p \in 1..(Len(w) - 1) /\ p \in Int /\ x[p].kind = "row"
    BY <1>1a, <1>2, <2>0 DEF MarkersIn
  <2> DEFINE o == IF p < q THEN p ELSE p + 1
  <2>2. o \in 1..Len(w) /\ o \in Int /\ x[p] = w[o] /\ o \in MarkersIn(w) /\ o # q
    BY <2>1, <1>1, <1>1a, <1>2 DEF MarkersIn
  <2>3. PICK i \in 1..n :
          LET e == o + Len(Body(a + i - 1, "xx"))
          IN  /\ w[o] = Marker(i) /\ At(w, o, Body(a + i - 1, "xx"))
              /\ IF i = n THEN e = Len(w) ELSE e # Len(w) /\ w[e + 1] = Marker(i + 1)
    BY <2>2 DEF Ordered
  <2> DEFINE b == Body(a + i - 1, "xx")
  <2>4. a + i - 1 \in Nat /\ a + i \in Nat /\ i \in Nat /\ i + 1 \in Nat
    OBVIOUS
  <2>5a. PICK u, v : Shape(b, a + i - 1, u, v)
    BY <2>4, BodyIs
  <2>5. b \in Seq(Token) /\ Len(b) \in Nat /\ \A k \in 1..Len(b) : b[k].kind # "row"
    <3>1. b \in Seq(Token)
      BY <2>5a DEF Shape
    <3> HIDE DEF b
    <3> QED
      BY ONLY <2>4, <2>5a, <3>1, ShapeIs
  <2>6. /\ w[o] = Marker(i) /\ At(w, o, b)
        /\ IF i = n THEN o + Len(b) = Len(w)
           ELSE o + Len(b) # Len(w) /\ w[o + Len(b) + 1] = Marker(i + 1)
    BY <2>3
  <2>7. b \in Remains(a, n, i)
    <3>1. b = SubSeq(b, 1, Len(b)) /\ Len(b) \in 0..Len(b)
      <4> HIDE DEF b
      <4> QED
        BY <2>5
    <3>2. b \in Damaged(b)
      BY <3>1 DEF Damaged
    <3> QED
      BY <3>2 DEF Remains
  <2> DEFINE swallowed == b \o Body(a + i, "xx")
  <2>8. i < n => swallowed \in Remains(a, n, i)
    BY DEF Remains
  <2>9. /\ o + Len(b) <= Len(w) /\ \A k \in 1..Len(b) : w[o + k] = b[k]
    <3> HIDE DEF b
    <3> QED
      BY <2>6 DEF At
  <2> HIDE DEF b, swallowed
  <2>10. CASE q # o + Len(b) + 1
    <3>1. q < o \/ q > o + Len(b) + 1
      <4>1. ASSUME q > o, q <= o + Len(b) PROVE FALSE
        <5>1. q - o \in 1..Len(b) /\ o + (q - o) = q
          BY <4>1, <2>2, <2>5, <1>1a
        <5> QED
          BY <5>1, <2>5, <2>9
      <4>2. q \in Int /\ o \in Int /\ Len(b) \in Int
        BY <1>1a, <2>2, <2>5
      <4> HIDE DEF o
      <4> QED
        BY ONLY <4>1, <4>2, <2>2, <2>10
    <3>2. At(x, IF q < o THEN o - 1 ELSE o, b)
      <4>1. At(RemoveAt(w, q), IF q < o THEN o - 1 ELSE o, b)
        <5> HIDE DEF o
        <5> QED
          BY ONLY <1>1, <1>1a, <2>2, <2>5, <2>6, <3>1, StretchStays
      <4> QED
        BY <4>1 DEF x
    <3>3. (IF q < o THEN o - 1 ELSE o) = p
      BY <2>1, <1>1a
    <3>4. At(x, p, b) /\ x[p] = Marker(i)
      BY <2>2, <2>6, <3>2, <3>3
    <3> QED
      BY <2>7, <3>4
  <2>11. CASE q = o + Len(b) + 1
    <3>1. o = p /\ q = p + Len(b) + 1
      BY <2>11, <2>1, <2>5, <1>1a
    <3>2. i # n /\ i < n /\ w[q] = Marker(i + 1)
      <4>1. i # n
        BY <2>6, <2>11, <1>1a, <2>2
      <4> HIDE DEF o
      <4> QED
        BY <4>1, <2>6, <2>11
    <3> HIDE DEF o
    <3>3. PICK j \in 1..n : w[q] = Marker(j) /\ At(w, q, Body(a + j - 1, "xx"))
      BY <1>1a DEF Ordered
    <3>4. j = i + 1 /\ a + j - 1 = a + i
      <4>1. Marker(j).n = j /\ Marker(i + 1).n = i + 1
        BY <2>4, TokensDiffer
      <4> QED
        BY <4>1, <3>2, <3>3
    <3> DEFINE d == Body(a + i, "xx")
    <3>5. d \in Seq(Token) /\ At(w, q, d)
      <4>1. d \in Seq(Token)
        BY <2>4, BodyType
      <4> QED
        BY <4>1, <3>3, <3>4
    <3>6. swallowed = b \o d
      BY DEF swallowed
    <3> HIDE DEF d
    <3>7. /\ q + Len(d) <= Len(w) /\ \A k \in 1..Len(d) : w[q + k] = d[k]
          /\ q + Len(d) = Len(w) \/ w[q + Len(d) + 1].kind = "row"
          /\ Len(d) \in Nat
      BY <3>5 DEF At
    <3>8. /\ Len(swallowed) = Len(b) + Len(d)
          /\ \A k \in 1..Len(b) : swallowed[k] = b[k]
          /\ \A k \in 1..Len(d) : swallowed[Len(b) + k] = d[k]
      BY ONLY <3>5, <3>6, <2>5
    <3>9. ASSUME NEW k \in 1..Len(swallowed) PROVE x[p + k] = swallowed[k]
      <4>1. CASE k <= Len(b)
        <5>1. k \in 1..Len(b) /\ p + k \in 1..(Len(w) - 1) /\ p + k < q
          BY <4>1, <3>1, <3>7, <3>8, <2>1, <2>5, <1>1a
        <5>2. x[p + k] = w[p + k]
          BY ONLY <5>1, <1>2
        <5> QED
          BY <5>1, <5>2, <3>1, <3>8, <2>9
      <4>2. CASE k > Len(b)
        <5> DEFINE h == k - Len(b)
        <5>1. /\ h \in 1..Len(d) /\ k = Len(b) + h /\ p + k \in 1..(Len(w) - 1)
              /\ p + k >= q /\ p + k + 1 = q + h
          BY <4>2, <3>1, <3>7, <3>8, <2>1, <2>5, <1>1a
        <5> HIDE DEF h
        <5>2. x[p + k] = w[p + k + 1]
          BY ONLY <5>1, <1>2
        <5>3. x[p + k] = d[h]
          BY <5>1, <5>2, <3>7
        <5> QED
          BY ONLY <5>1, <5>3, <3>8
      <4>3. k \in Int /\ Len(b) \in Int
        BY <2>5, <3>7, <3>8
      <4> QED
        BY <4>1, <4>2, <4>3
    <3>10. p + Len(swallowed) <= Len(x)
      BY <3>1, <3>7, <3>8, <1>1a, <1>2, <2>1, <2>5
    <3>11. ASSUME p + Len(swallowed) # Len(x) PROVE x[p + Len(swallowed) + 1].kind = "row"
      <4>1. /\ q + Len(d) # Len(w) /\ p + Len(swallowed) + 1 = q + Len(d)
            /\ q + Len(d) \in 1..(Len(w) - 1) /\ q + Len(d) >= q
        <5>1. \A g, h, k, l, m \in Int : g >= 1 /\ h >= 0 /\ k >= 0 /\ m = g + h + 1 /\ m + k <= l
                  /\ g + (h + k) # l - 1
                => /\ m + k # l /\ g + (h + k) + 1 = m + k
                   /\ m + k \in 1..(l - 1) /\ m + k >= m
          OBVIOUS
        <5>2. /\ Len(b) \in Int /\ Len(b) >= 0 /\ Len(d) \in Int /\ Len(d) >= 0 /\ Len(w) \in Int
              /\ p >= 1 /\ p \in Int /\ p + (Len(b) + Len(d)) # Len(w) - 1
          BY <3>11, <3>7, <3>8, <1>1a, <1>2, <2>1, <2>5
        <5>3. Len(swallowed) = Len(b) + Len(d) /\ q + Len(d) <= Len(w) /\ q = p + Len(b) + 1
          BY <3>1, <3>7, <3>8
        <5> QED
          BY ONLY <5>1, <5>2, <5>3, <1>1a, SMTT(30)
      <4>2. x[q + Len(d)] = w[q + Len(d) + 1]
        BY ONLY <4>1, <1>2
      <4> QED
        BY <4>1, <4>2, <3>7
    <3>12. At(x, p, swallowed)
      BY <3>9, <3>10, <3>11 DEF At
    <3>13. x[p] = Marker(i)
      BY <2>2, <2>6, <3>1
    <3> QED
      BY <2>8, <3>2, <3>12, <3>13
  <2> QED
    BY <2>10, <2>11
<1> QED
  BY <1>2, <1>3 DEF Sound, x

(* Whatever Damages does to it, every answer is sound.                      *)
LEMMA AnswersAre ==
    ASSUME NEW a \in Nat \ {0}, NEW n \in Nat, NEW ans \in Answers(a, n)
    PROVE  Sound(ans, a, n)
<1> DEFINE block(i) == <<Marker(i)>> \o Body(a + i - 1, "xx")
           blocks == Blocks(a, n)
           whole == FlattenSeq(blocks)
<1>1. \A i \in 1..n : block(i) \in Seq(Token)
  <2>1. ASSUME NEW i \in 1..n PROVE block(i) \in Seq(Token)
    <3>1. a + i - 1 \in Nat /\ i \in Nat
      OBVIOUS
    <3>2. Marker(i) \in Token /\ Body(a + i - 1, "xx") \in Seq(Token)
      BY ONLY <3>1, TokensDiffer, BodyType, Zenon
    <3>3. <<Marker(i)>> \in Seq(Token)
      BY <3>2
    <3> QED
      BY ONLY <3>2, <3>3
  <2> QED
    BY <2>1
<1>2. blocks = [i \in 1..n |-> block(i)]
  BY DEF Blocks
<1> HIDE DEF block
<1>3. blocks \in Seq(Seq(Token)) /\ Len(blocks) = n /\ \A i \in 1..n : blocks[i] = block(i)
  BY <1>1, <1>2
<1>4. ASSUME NEW s \in Seq(Seq(Token)), \A k \in 1..Len(s) : \E i \in 1..n : s[k] = block(i)
      PROVE  Whole(FlattenSeq(s), a, n)
  BY <1>4, FlatIsWhole DEF block
<1> HIDE DEF blocks
<1>5. Whole(whole, a, n)
  BY <1>3, <1>4
<1>6. whole \in Seq(Token)
  BY <1>5 DEF Whole
<1>7. ans = whole => Sound(ans, a, n)
  BY <1>5, WholeIsSound
<1>8. ASSUME NEW p \in Bijection(1..n, 1..n), ans = FlattenSeq([i \in 1..n |-> blocks[p[i]]])
      PROVE  Sound(ans, a, n)
  <2> DEFINE s == [i \in 1..n |-> blocks[p[i]]]
  <2>1. p \in [1..n -> 1..n]
    BY DEF Bijection, Injection
  <2>2. \A i \in 1..n : p[i] \in 1..n /\ blocks[p[i]] = block(p[i]) /\ blocks[p[i]] \in Seq(Token)
    BY ONLY <2>1, <1>1, <1>3
  <2>3. s \in Seq(Seq(Token)) /\ Len(s) = n /\ \A i \in 1..n : s[i] = blocks[p[i]]
    BY ONLY <2>2, n \in Nat
  <2> HIDE DEF s
  <2>4. Whole(FlattenSeq(s), a, n)
    BY <2>2, <2>3, <1>4
  <2> QED
    BY <2>4, <1>8, WholeIsSound DEF s
<1>9. ASSUME NEW i \in 1..n, ans = FlattenSeq(RemoveAt(blocks, i))
      PROVE  Sound(ans, a, n)
  <2> DEFINE s == RemoveAt(blocks, i)
  <2>1. i \in 1..Len(blocks)
    BY <1>3
  <2>2. /\ s \in Seq(Seq(Token)) /\ Len(s) = n - 1
        /\ \A k \in 1..(n - 1) : /\ k \in Int /\ (k < i => s[k] = blocks[k])
                                 /\ k >= i => s[k] = blocks[k + 1]
    BY ONLY <2>1, <1>3, RemoveAtIs, Zenon
  <2> HIDE DEF s
  <2>3. ASSUME NEW k \in 1..Len(s) PROVE \E j \in 1..n : s[k] = block(j)
    <3>1. k \in 1..(n - 1) /\ k \in 1..n /\ k + 1 \in 1..n /\ i \in Int
      BY <2>2
    <3>2. s[k] = blocks[k] \/ s[k] = blocks[k + 1]
      BY ONLY <3>1, <2>2
    <3> QED
      BY ONLY <3>1, <3>2, <1>3
  <2>4. Whole(FlattenSeq(s), a, n)
    BY <2>2, <2>3, <1>4
  <2> QED
    BY <2>4, <1>9, WholeIsSound DEF s
<1>10. ASSUME NEW k \in 0..Len(whole), ans = SubSeq(whole, 1, k) PROVE Sound(ans, a, n)
  BY <1>5, <1>10, CutIsSound
<1>11. ASSUME NEW p \in DOMAIN whole, whole[p].kind = "fld", ans = RemoveAt(whole, p)
       PROVE  Sound(ans, a, n)
  BY <1>5, <1>11, LostSepIsSound
<1>12. \/ ans = whole
       \/ \E p \in Bijection(1..n, 1..n) : ans = FlattenSeq([i \in 1..n |-> blocks[p[i]]])
       \/ \E k \in 0..Len(whole) : ans = SubSeq(whole, 1, k)
       \/ \E i \in 1..n : ans = FlattenSeq(RemoveAt(blocks, i))
       \/ \E p \in DOMAIN whole : whole[p].kind = "fld" /\ ans = RemoveAt(whole, p)
       \/ /\ "lost_marker" \in Damages
          /\ \E p \in DOMAIN whole : whole[p].kind = "row" /\ ans = RemoveAt(whole, p)
  BY DEF Answers, OneLost, blocks
<1>13. Ordered(whole, a, n)
  <2>1. \A i \in 1..n : blocks[i] = <<Marker(i)>> \o Body(a + i - 1, "xx")
    BY <1>3 DEF block
  <2> QED
    BY <2>1, <1>3, FlatIsOrdered
<1> HIDE DEF whole
<1>14. ASSUME "lost_marker" \in Damages,
              NEW p \in DOMAIN whole, whole[p].kind = "row", ans = RemoveAt(whole, p)
       PROVE  Sound(ans, a, n)
  BY <1>13, <1>14, LostMarkerIsSound
<1> QED
  BY <1>7, <1>8, <1>9, <1>10, <1>11, <1>12, <1>14

-----------------------------------------------------------------------------
(* Decoding.                                                                *)

(* The texts of row r in an answer: its own, or nothing; behind its action  *)
(* the next body may stand, when that lost its marker.                      *)
OwnTexts(r, texts) ==
    \A f \in Field :
        \/ texts[f] \in {<<>>, <<Text(r, f, "xx")>>}
        \/ /\ "lost_marker" \in Damages /\ f = 3 /\ r < Len(rows)
           /\ \E t \in {<<>>, <<Text(r, f, "xx")>>} : texts[f] = t \o Body(r + 1, "xx")

LEMMA SplitType ==
    ASSUME NEW body
    PROVE  DOMAIN Split(body) = Field
BY DEF Split, Field

LEMMA DecodedType ==
    ASSUME NEW ans, NEW a, NEW n, NEW id \in DOMAIN Decoded(ans, a, n)
    PROVE  DOMAIN Decoded(ans, a, n)[id] = Field
BY SplitType DEF Decoded

(* Every clause found in an answer has the texts of one of its rows.        *)
LEMMA DecodedIsOwn ==
    ASSUME rows \in Inputs,
           NEW a \in 1..Len(rows), NEW b \in a..Len(rows), NEW ans \in Answers(a, b - a + 1),
           NEW id \in DOMAIN Decoded(ans, a, b - a + 1)
    PROVE  \E r \in DOMAIN rows : rows[r].id = id /\ OwnTexts(r, Decoded(ans, a, b - a + 1)[id])
<1> DEFINE n == b - a + 1
           idAt(p) == rows[a + ans[p].n - 1].id
           good == {p \in MarkersIn(ans) :
                      ans[p].n \in 1..n /\ Cardinality(SepsIn(BodyAt(ans, p))) >= 2}
           mine == {p \in good : idAt(p) = id}
           p0 == Max(mine)
<1>1. Len(rows) \in Nat /\ DOMAIN rows = 1..Len(rows)
  BY RowsAre
<1>2. n \in Nat /\ a \in Nat \ {0} /\ a \in Nat
  BY <1>1
<1>3. Sound(ans, a, n)
  <2> HIDE DEF n
  <2>1. ans \in Answers(a, n)
    BY DEF n
  <2> QED
    BY ONLY <1>2, <2>1, AnswersAre
<1>4. ans \in Seq(Token) /\ Len(ans) \in Nat
  BY <1>3, SMTT(30) DEF Sound
<1>5. mine # {} /\ Decoded(ans, a, b - a + 1)[id] = Split(BodyAt(ans, p0))
  BY DEF Decoded
<1>6. p0 \in mine
  <2>1. mine \in SUBSET Int /\ \A k \in mine : k <= Len(ans)
    BY <1>4 DEF MarkersIn
  <2>2. Len(ans) \in Int
    BY <1>4
  <2> HIDE DEF mine
  <2> QED
    BY ONLY <1>5, <2>1, <2>2, MaxOf
<1> HIDE DEF p0
<1>7. p0 \in MarkersIn(ans) /\ Cardinality(SepsIn(BodyAt(ans, p0))) >= 2 /\ idAt(p0) = id
  BY <1>6
<1>8. PICK i \in 1..n : \E c \in Remains(a, n, i) : ans[p0] = Marker(i) /\ At(ans, p0, c)
  BY <1>3, <1>7 DEF Sound
<1>9. PICK c \in Remains(a, n, i) : ans[p0] = Marker(i) /\ At(ans, p0, c)
  BY <1>8
<1> DEFINE r == a + i - 1
<1>10. r \in DOMAIN rows /\ r \in Nat /\ rows[r].id = id /\ (i < n => r < Len(rows))
  <2>1. i \in Nat /\ r \in 1..Len(rows) /\ r \in Nat /\ (i < n => r < Len(rows))
    BY <1>1
  <2>2. ans[p0].n = i
    BY <2>1, <1>9, TokensDiffer
  <2> QED
    BY <2>1, <2>2, <1>1, <1>7
<1>9a. /\ c \in Damaged(Body(r, "xx")) \/ (i < n /\ "lost_marker" \in Damages /\ c = Body(r, "xx") \o Body(r + 1, "xx"))
       /\ r + 1 \in Nat
  <2>1. a + i = r + 1 /\ r + 1 \in Nat
    BY <1>1
  <2> QED
    BY <2>1, <1>9 DEF Remains
<1>10a. DOMAIN Split(BodyAt(ans, p0)) = Field
  BY SplitType
<1> HIDE DEF r
<1> DEFINE bd == Body(r, "xx")
<1>11. PICK u, v : Shape(bd, r, u, v)
  BY <1>10, BodyIs
<1> DEFINE next == Body(r + 1, "xx")
<1>11a. next \in Seq(Token) /\ \A k \in 1..Len(next) : next[k].kind # "row"
  <2>1. PICK g, h : Shape(next, r + 1, g, h)
    BY <1>9a, BodyIs
  <2>2. next \in Seq(Token)
    BY <2>1 DEF Shape
  <2> HIDE DEF next
  <2> QED
    BY ONLY <1>9a, <2>1, <2>2, ShapeIs
<1>12. c \in Seq(Token) /\ \A k \in 1..Len(c) : c[k].kind # "row"
  <2>1. /\ bd \in Seq(Token) /\ Len(bd) \in Nat /\ DOMAIN bd = 1..Len(bd)
        /\ \A k \in 1..Len(bd) : bd[k].kind # "row"
    BY <1>10, <1>11, ShapeIs, BodyType
  <2>2. c \in Damaged(bd) \/ c = bd \o next
    BY <1>9a
  <2> HIDE DEF bd, next
  <2>3. CASE c \in {SubSeq(bd, 1, j) : j \in 0..Len(bd)}
    <3>1. PICK j \in 0..Len(bd) : c = SubSeq(bd, 1, j)
      BY <2>3
    <3>2. c \in Seq(Token) /\ Len(c) = j /\ \A k \in 1..j : c[k] = bd[k] /\ k \in 1..Len(bd)
      BY <2>1, <3>1
    <3> QED
      BY <2>1, <3>2
  <2>4. CASE c \in {RemoveAt(bd, j) : j \in SepsIn(bd)}
    <3>1. PICK j \in 1..Len(bd) : c = RemoveAt(bd, j)
      BY <2>1, <2>4 DEF SepsIn
    <3>2. /\ c \in Seq(Token) /\ Len(c) = Len(bd) - 1
          /\ \A k \in 1..(Len(bd) - 1) : /\ k \in Int /\ (k < j => c[k] = bd[k])
                                         /\ k >= j => c[k] = bd[k + 1]
      BY ONLY <3>1, <2>1, RemoveAtIs, Zenon
    <3>3. ASSUME NEW k \in 1..Len(c) PROVE c[k].kind # "row"
      <4>1. k \in 1..(Len(bd) - 1) /\ k \in 1..Len(bd) /\ k + 1 \in 1..Len(bd) /\ j \in Int
        BY <2>1, <3>2, SMTT(30)
      <4>2. c[k] = bd[k] \/ c[k] = bd[k + 1]
        BY ONLY <4>1, <3>2, SMTT(30)
      <4> QED
        BY ONLY <4>1, <4>2, <2>1
    <3> QED
      BY <3>2, <3>3
  <2>5. CASE c = bd \o next
    <3>1. /\ c \in Seq(Token) /\ Len(c) = Len(bd) + Len(next) /\ Len(next) \in Nat
          /\ \A k \in 1..Len(bd) : c[k] = bd[k]
          /\ \A k \in 1..Len(next) : c[Len(bd) + k] = next[k]
      BY ONLY <2>1, <2>5, <1>11a
    <3>2. ASSUME NEW k \in 1..Len(c) PROVE c[k].kind # "row"
      <4>1. k \in 1..Len(bd) \/ (k - Len(bd) \in 1..Len(next) /\ Len(bd) + (k - Len(bd)) = k)
        BY <2>1, <3>1
      <4> QED
        BY ONLY <4>1, <3>1, <2>1, <1>11a
    <3> QED
      BY <3>1, <3>2
  <2> QED
    BY <2>2, <2>3, <2>4, <2>5 DEF Damaged
<1>13. BodyAt(ans, p0) = c
  BY ONLY <1>4, <1>7, <1>9, <1>12, BodyAtIs, Zenon
<1>14. OwnTexts(r, Split(c))
  <2> HIDE DEF bd, next
  <2>1. CASE c \in Damaged(bd)
    <3>1. Cardinality(SepsIn(c)) >= 2
      BY <1>7, <1>13
    <3>2. \A f \in Field : Split(c)[f] \in {<<>>, <<Text(r, f, "xx")>>}
      BY ONLY <2>1, <3>1, <1>10, <1>11, SplitIs, Zenon
    <3> QED
      BY <3>2 DEF OwnTexts
  <2>2. CASE i < n /\ "lost_marker" \in Damages /\ c = bd \o next
    <3>1. /\ Split(c)[1] \in {<<>>, <<Text(r, 1, "xx")>>}
          /\ Split(c)[2] \in {<<>>, <<Text(r, 2, "xx")>>}
          /\ \E t \in {<<>>, <<Text(r, 3, "xx")>>} : Split(c)[3] = t \o next
      BY <2>2, <1>10, <1>11, <1>11a, SplitSwallowed
    <3>2. r < Len(rows)
      BY <2>2, <1>10
    <3>3. \A f \in Field : f = 1 \/ f = 2 \/ f = 3
      BY DEF Field
    <3> QED
      BY <2>2, <3>1, <3>2, <3>3, Zenon DEF OwnTexts, next
  <2> QED
    BY <2>1, <2>2, <1>9a DEF bd, next
<1> QED
  BY <1>5, <1>10, <1>13, <1>14

(* A stretch of a sequence.                                                 *)
LEMMA StretchIs ==
    ASSUME NEW T, NEW c \in Seq(T), NEW i \in 1..(Len(c) + 1), NEW j \in 0..Len(c)
    PROVE  SubSeq(c, i, j) \in Seq(T)
<1>1. \A k \in i..j : k \in 1..Len(c) /\ c[k] \in T
  OBVIOUS
<1> QED
  BY <1>1

(* Three texts of tokens come out of a body with two separators.            *)
LEMMA SplitTokens ==
    ASSUME NEW body \in Seq(Token), Cardinality(SepsIn(body)) >= 2, NEW f \in Field
    PROVE  Split(body)[f] \in Seq(Token)
<1> DEFINE S == SepsIn(body)
           u == Min(S)
           v == Min(S \ {u})
<1>1. S \subseteq 1..Len(body) /\ Len(body) \in Nat
  BY DEF SepsIn
<1>2. IsFiniteSet(S)
  <2>1. IsFiniteSet(1..Len(body))
    BY <1>1, FS_Interval
  <2> HIDE DEF S
  <2> QED
    BY ONLY <2>1, <1>1, FS_Subset, Zenon
<1>3. Split(body) = <<SubSeq(body, 1, u - 1), SubSeq(body, u + 1, v - 1), SubSeq(body, v + 1, Len(body))>>
  BY DEF Split
<1>4. Cardinality(S) >= 2
  OBVIOUS
<1> HIDE DEF S
<1>0. \A A : A = {} => ~(Cardinality(A) >= 2)
  <2>1. Cardinality({}) = 0
    BY FS_EmptySet
  <2> QED
    BY <2>1
<1>5. S \in SUBSET Nat /\ S # {}
  BY <1>0, <1>1, <1>4
<1>6. u \in S
  BY ONLY <1>5, MinOf
<1>7. IsFiniteSet(S \ {u}) /\ Cardinality(S \ {u}) = Cardinality(S) - 1 /\ Cardinality(S) \in Nat
  BY ONLY <1>2, <1>6, FS_RemoveElement, FS_CardinalityType
<1>8. S \ {u} \in SUBSET Nat /\ S \ {u} # {}
  <2>1. Cardinality({}) = 0
    BY FS_EmptySet
  <2>2. Cardinality(S \ {u}) # 0
    BY ONLY <1>4, <1>7
  <2> QED
    BY ONLY <2>1, <2>2, <1>5
<1>9. v \in S
  <2>1. v \in S \ {u}
    BY ONLY <1>8, MinOf
  <2> QED
    BY <2>1
<1> HIDE DEF u, v
<1>10. u \in 1..Len(body) /\ v \in 1..Len(body)
  BY <1>1, <1>6, <1>9
<1>11. /\ 1 \in 1..(Len(body) + 1) /\ u - 1 \in 0..Len(body)
       /\ u + 1 \in 1..(Len(body) + 1) /\ v - 1 \in 0..Len(body)
       /\ v + 1 \in 1..(Len(body) + 1) /\ Len(body) \in 0..Len(body)
  BY <1>1, <1>10
<1>12. /\ SubSeq(body, 1, u - 1) \in Seq(Token) /\ SubSeq(body, u + 1, v - 1) \in Seq(Token)
       /\ SubSeq(body, v + 1, Len(body)) \in Seq(Token)
  BY ONLY <1>11, StretchIs, body \in Seq(Token)
<1>13. \A k \in 1..3 : k = 1 \/ k = 2 \/ k = 3
  OBVIOUS
<1>14. f = 1 \/ f = 2 \/ f = 3
  BY <1>13 DEF Field
<1>15. \A x, y, z : <<x, y, z>>[1] = x /\ <<x, y, z>>[2] = y /\ <<x, y, z>>[3] = z
  OBVIOUS
<1>16. /\ Split(body)[1] \in Seq(Token) /\ Split(body)[2] \in Seq(Token)
       /\ Split(body)[3] \in Seq(Token)
  <2> DEFINE x == SubSeq(body, 1, u - 1)
             y == SubSeq(body, u + 1, v - 1)
             z == SubSeq(body, v + 1, Len(body))
  <2>1. Split(body) = <<x, y, z>> /\ x \in Seq(Token) /\ y \in Seq(Token) /\ z \in Seq(Token)
    BY ONLY <1>3, <1>12
  <2> HIDE DEF x, y, z
  <2>2. Split(body)[1] = x /\ Split(body)[2] = y /\ Split(body)[3] = z
    BY ONLY <1>15, <2>1
  <2> QED
    BY ONLY <2>1, <2>2
<1> QED
  BY ONLY <1>14, <1>16, Zenon

LEMMA BodyAtTokens ==
    ASSUME NEW ans \in Seq(Token), NEW p \in MarkersIn(ans)
    PROVE  BodyAt(ans, p) \in Seq(Token)
<1> DEFINE later == {q \in MarkersIn(ans) : q > p}
           end == IF later = {} THEN Len(ans) ELSE Min(later) - 1
<1>1. /\ p \in 1..Len(ans) /\ Len(ans) \in Nat /\ later \in SUBSET Nat
      /\ \A q \in later : q \in 1..Len(ans)
  BY DEF MarkersIn
<1>2. BodyAt(ans, p) = SubSeq(ans, p + 1, end)
  BY DEF BodyAt
<1>3. end \in 0..Len(ans)
  <2>1. CASE later = {}
    BY <2>1, <1>1
  <2>2. CASE later # {}
    <3> HIDE DEF later
    <3>1. Min(later) \in later
      BY ONLY <1>1, <2>2, MinOf
    <3>2. Min(later) \in 1..Len(ans) /\ end = Min(later) - 1
      BY <3>1, <1>1, <2>2
    <3>3. \A m \in 1..Len(ans) : m - 1 \in 0..Len(ans)
      BY <1>1
    <3> HIDE DEF end
    <3> QED
      BY ONLY <3>2, <3>3
  <2> QED
    BY <2>1, <2>2
<1> HIDE DEF end
<1>4. p + 1 \in 1..(Len(ans) + 1)
  BY <1>1
<1> QED
  BY ONLY <1>2, <1>3, <1>4, StretchIs, ans \in Seq(Token)

(* No decoded text is English.                                              *)
LEMMA DecodedTokens ==
    ASSUME NEW ans \in Seq(Token), NEW a, NEW n, NEW id \in DOMAIN Decoded(ans, a, n), NEW f \in Field
    PROVE  Decoded(ans, a, n)[id][f] \in Seq(Token)
<1> DEFINE idAt(p) == rows[a + ans[p].n - 1].id
           good == {p \in MarkersIn(ans) :
                      ans[p].n \in 1..n /\ Cardinality(SepsIn(BodyAt(ans, p))) >= 2}
           mine == {p \in good : idAt(p) = id}
           p0 == Max(mine)
<1>1. mine # {} /\ Decoded(ans, a, n)[id] = Split(BodyAt(ans, p0))
  BY DEF Decoded
<1>2. mine \in SUBSET Int /\ (\A k \in mine : k <= Len(ans)) /\ Len(ans) \in Int
  BY DEF MarkersIn
<1>3. p0 \in mine
  <2> HIDE DEF mine
  <2> QED
    BY ONLY <1>1, <1>2, MaxOf
<1>4. p0 \in MarkersIn(ans) /\ Cardinality(SepsIn(BodyAt(ans, p0))) >= 2
  BY <1>3
<1> HIDE DEF p0
<1>5. BodyAt(ans, p0) \in Seq(Token)
  BY <1>4, BodyAtTokens
<1> QED
  BY <1>1, <1>4, <1>5, SplitTokens

(* What the worker may see of a clause that Mayura translated: no English,  *)
(* and the texts of one of its rows.                                        *)
Sees(id, texts) ==
    /\ \A f \in Field : texts[f] \in Seq(Token)
    /\ \E r \in DOMAIN rows : rows[r].id = id /\ OwnTexts(r, texts)

LEMMA DecodedIsSeen ==
    ASSUME rows \in Inputs,
           NEW a \in 1..Len(rows), NEW b \in a..Len(rows), NEW ans \in Answers(a, b - a + 1),
           NEW id \in DOMAIN Decoded(ans, a, b - a + 1)
    PROVE  Sees(id, Decoded(ans, a, b - a + 1)[id])
<1>1. Len(rows) \in Nat
  BY RowsAre
<1>2. a \in Nat \ {0} /\ b - a + 1 \in Nat
  BY <1>1
<1>3. ans \in Seq(Token)
  BY ONLY <1>2, AnswersAre, ans \in Answers(a, b - a + 1) DEF Sound
<1> QED
  BY <1>3, DecodedIsOwn, DecodedTokens DEF Sees

-----------------------------------------------------------------------------
(* The invariant.                                                           *)

(* The rows whose result is already entered.                                *)
Behind == 1..(IF pc = "field" THEN row - 1 ELSE lo - 1)

(* Where the loops are.                                                     *)
Places ==
    /\ pc = "start" => lo = 1
    /\ pc \in {"chunk", "field"} => lo <= hi
    /\ pc = "field" => row \in lo..hi
    /\ pc = "overview" => lo = Len(rows) + 1
    /\ pc # "done" => stored = NotStored
(* The chunk being translated fits.                                         *)
Fits == pc = "chunk" => EncodedLength(lo, hi) <= MaxChars
(* Exactly the rows behind have a result.                                   *)
Entered == pc # "done" => DOMAIN out = {rows[r].id : r \in Behind}
(* Every attempt but the first answered a hiccup.                           *)
Counted == hiccups < Attempts => attempt <= hiccups + 1

Base == TypeOK /\ Places /\ Fits /\ Entered /\ Counted /\ FailuresStayLocal

(* A result is the English of a row of the clause, or what Mayura made of   *)
(* one.                                                                     *)
Shows(id, v) ==
    IF v.fallback THEN \E r \in DOMAIN rows : rows[r].id = id /\ v = English(r)
                  ELSE Sees(id, v.texts)
Shown == \A id \in DOMAIN out : Shows(id, out[id])
(* What is stored was made of the results.                                  *)
Result ==
    [rendered |-> IF FellBack = DOMAIN rows THEN <<>>
                  ELSE [r \in DOMAIN rows |-> Delivered(r).texts],
     fallback |-> {rows[r].id : r \in FellBack},
     overview |-> overview,
     error    |-> FellBack # {}]
Kept == pc = "done" => stored = [NotStored EXCEPT !.error = TRUE] \/ stored = Result

-----------------------------------------------------------------------------
(* Types.                                                                   *)

LEMMA NumbersAre ==
    ASSUME TypeOK
    PROVE  /\ Len(rows) \in Nat \ {0} /\ DOMAIN rows = 1..Len(rows) /\ Attempts \in Nat \ {0}
           /\ lo \in Nat /\ hi \in Nat /\ row \in Nat /\ attempt \in Nat /\ items \in Nat
           /\ hiccups \in Nat /\ failed \in Nat /\ dropped \in Nat
           /\ 1 <= lo /\ lo <= Len(rows) + 1 /\ hi <= Len(rows) /\ 1 <= row /\ row <= Len(rows)
           /\ 1 <= attempt /\ attempt <= Attempts /\ hiccups <= Attempts
           /\ rows \in Inputs /\ Len(overview) \in Nat
BY RowsAre, NumbersAssumption DEF TypeOK

LEMMA RowsStay ==
    ASSUME rows' = rows
    PROVE  ids' = ids /\ \A r : English(r)' = English(r)
BY DEF ids, English, Translated, AllOwn, Own, Text

(* Shapes of a result.                                                      *)
LEMMA ResultTypes ==
    /\ \A r : DOMAIN English(r).texts = Field /\ English(r).fallback = TRUE
    /\ \A r, t : DOMAIN t = Field => /\ DOMAIN Translated(r, t).texts = Field
                                     /\ Translated(r, t).fallback = FALSE
<1>1. \A r, t : DOMAIN t = Field => DOMAIN Translated(r, t).texts = Field /\ Translated(r, t).fallback = FALSE
  BY DEF Translated
<1>2. \A r : DOMAIN AllOwn(r, "en") = Field
  BY DEF AllOwn
<1>3. \A r : /\ English(r).texts = Translated(r, AllOwn(r, "en")).texts
             /\ English(r).fallback = TRUE
  BY DEF English, Translated
<1> QED
  BY <1>1, <1>2, <1>3

(* Entering results.                                                        *)
LEMMA PutIs ==
    ASSUME NEW new, out' = Put(new)
    PROVE  /\ DOMAIN out' = DOMAIN new \cup DOMAIN out
           /\ \A id \in DOMAIN new : out'[id] = new[id]
           /\ \A id \in DOMAIN out : id \notin DOMAIN new => out'[id] = out[id]
BY DEF Put

(* Row r gets a value.                                                      *)
LEMMA SettleIs ==
    ASSUME NEW r, NEW value, Settle(r, value)
    PROVE  /\ DOMAIN out' = {rows[r].id} \cup DOMAIN out
           /\ out'[rows[r].id] = value
           /\ \A id \in DOMAIN out : id # rows[r].id => out'[id] = out[id]
           /\ \/ r < hi /\ pc' = "field" /\ row' = r + 1 /\ todo' = rows[r + 1].has
                 /\ attempt' = 1 /\ lo' = lo
              \/ ~(r < hi) /\ pc' = "pack" /\ lo' = hi + 1 /\ row' = row /\ todo' = todo
                 /\ attempt' = attempt
<1> DEFINE new == [id \in {rows[r].id} |-> value]
<1>1. out' = Put(new)
  BY DEF Settle
<1>2. DOMAIN new = {rows[r].id} /\ new[rows[r].id] = value
  OBVIOUS
<1> HIDE DEF new
<1>3. /\ DOMAIN out' = DOMAIN new \cup DOMAIN out
      /\ \A id \in DOMAIN new : out'[id] = new[id]
      /\ \A id \in DOMAIN out : id \notin DOMAIN new => out'[id] = out[id]
  BY ONLY <1>1, PutIs
<1>4. \/ r < hi /\ pc' = "field" /\ row' = r + 1 /\ todo' = rows[r + 1].has
         /\ attempt' = 1 /\ lo' = lo
      \/ ~(r < hi) /\ pc' = "pack" /\ lo' = hi + 1 /\ row' = row /\ todo' = todo
         /\ attempt' = attempt
  BY DEF Settle, StartRow
<1> QED
  BY <1>2, <1>3, <1>4

(* The rows of an answered chunk.                                           *)
ChunkResult(parsed) ==
    [id \in {rows[r].id : r \in lo..hi} |->
       LET r == Max({q \in lo..hi : rows[q].id = id})
       IN  IF rows[r].id \in DOMAIN parsed THEN Translated(r, parsed[id]) ELSE English(r)]

LEMMA ChunkResultIs ==
    ASSUME TypeOK, NEW parsed
    PROVE  /\ DOMAIN ChunkResult(parsed) = {rows[r].id : r \in lo..hi}
           /\ \A id \in DOMAIN ChunkResult(parsed) : \E r \in lo..hi :
                 /\ r \in DOMAIN rows /\ rows[r].id = id
                 /\ ChunkResult(parsed)[id] =
                      IF id \in DOMAIN parsed THEN Translated(r, parsed[id]) ELSE English(r)
<1>1. DOMAIN ChunkResult(parsed) = {rows[r].id : r \in lo..hi}
  BY DEF ChunkResult
<1>2. ASSUME NEW id \in DOMAIN ChunkResult(parsed)
      PROVE  \E r \in lo..hi :
                 /\ r \in DOMAIN rows /\ rows[r].id = id
                 /\ ChunkResult(parsed)[id] =
                      IF id \in DOMAIN parsed THEN Translated(r, parsed[id]) ELSE English(r)
  <2> DEFINE S == {q \in lo..hi : rows[q].id = id}
             r == Max(S)
  <2>1. S \in SUBSET Int /\ S # {} /\ hi \in Int /\ \A k \in S : k <= hi
    BY <1>1, <1>2, NumbersAre, SMTT(30)
  <2>2. r \in S
    <3> HIDE DEF S
    <3> QED
      BY ONLY <2>1, MaxOf
  <2>3. ChunkResult(parsed)[id] =
          IF rows[r].id \in DOMAIN parsed THEN Translated(r, parsed[id]) ELSE English(r)
    BY <1>1, <1>2 DEF ChunkResult
  <2> HIDE DEF r
  <2>4. r \in lo..hi /\ rows[r].id = id
    BY <2>2
  <2>5. r \in DOMAIN rows
    BY <2>4, NumbersAre, SMTT(30)
  <2> QED
    BY <2>3, <2>4, <2>5
<1> QED
  BY <1>1, <1>2

LEMMA ChunkAnsweredIs ==
    ASSUME ChunkAnswered
    PROVE  \E ans \in Answers(lo, hi - lo + 1) :
             LET parsed == Decoded(ans, lo, hi - lo + 1)
             IN  /\ out' = Put(ChunkResult(parsed))
                 /\ dropped' = dropped + Cardinality({r \in lo..hi : rows[r].id \notin DOMAIN parsed})
BY DEF ChunkAnswered, ChunkResult

(* Each step keeps the types.                                               *)
LEMMA TypeCalm ==
    ASSUME TypeOK, Places,
           \/ UNCHANGED vars \/ Unconfigured \/ Configured \/ NextChunk \/ Retry \/ ChunkFails
           \/ FieldAnswered \/ RowsDone \/ OverviewAnswered \/ OverviewFails \/ Store
    PROVE  TypeOK'
<1> USE NumbersAre, RowsAre
<1>0. UNCHANGED <<rows, items, out>> /\ ids' = ids /\ Len(rows)' = Len(rows)
  BY DEF vars, Unconfigured, Configured, NextChunk, Retry, ChunkFails, FieldAnswered, RowsDone,
         OverviewAnswered, OverviewFails, Store, ids
<1>1. /\ rows' \in Inputs /\ items' \in Overviews /\ DOMAIN out' \subseteq ids'
      /\ \A id \in DOMAIN out' : DOMAIN out'[id].texts = Field /\ out'[id].fallback \in BOOLEAN
  BY <1>0 DEF TypeOK
<1>2. pc' \in {"start", "pack", "chunk", "field", "overview", "done"}
  BY DEF TypeOK, vars, Unconfigured, Configured, NextChunk, Retry, ChunkFails, FieldAnswered,
         RowsDone, OverviewAnswered, OverviewFails, Store, StartRow
<1>3. lo' = lo /\ lo' \in 1..(Len(rows)' + 1)
  BY <1>0 DEF TypeOK, vars, call, Unconfigured, Configured, NextChunk, Retry, ChunkFails,
         FieldAnswered, RowsDone, OverviewAnswered, OverviewFails, Store
<1>4. hi' \in 0..Len(rows)'
  <2>1. CASE NextChunk
    <3>1. lo \in 1..Len(rows) /\ hi' = ChunkEnd(lo)
      BY <2>1 DEF NextChunk
    <3>2. hi' \in lo..Len(rows)
      BY <3>1, ChunkEndIs
    <3> QED
      BY <3>1, <3>2, <1>0
  <2>2. CASE ~NextChunk
    <3>1. hi' = hi
      BY <2>2 DEF vars, call, Unconfigured, Configured, Retry, ChunkFails,
         FieldAnswered, RowsDone, OverviewAnswered, OverviewFails, Store
    <3> QED
      BY <3>1, <1>0 DEF TypeOK
  <2> QED
    BY <2>1, <2>2
<1>5. row' \in 1..Len(rows)' /\ todo' \subseteq Field
  <2>1. (row' = row /\ todo' \subseteq todo) \/ (row' = lo /\ todo' = rows[lo].has /\ lo <= Len(rows))
    BY DEF TypeOK, Places, vars, call, Unconfigured, Configured, NextChunk, Retry, ChunkFails,
         FieldAnswered, RowsDone, OverviewAnswered, OverviewFails, Store, StartRow
  <2>2. lo <= Len(rows) => lo \in 1..Len(rows) /\ rows[lo].has \subseteq Field
    OBVIOUS
  <2> QED
    BY <2>1, <2>2, <1>0 DEF TypeOK
<1>6. attempt' \in 1..Attempts
  <2>1. attempt' = attempt \/ attempt' = 1 \/ (attempt < Attempts /\ attempt' = attempt + 1)
    BY DEF vars, Unconfigured, Configured, NextChunk, Retry, ChunkFails,
         FieldAnswered, RowsDone, OverviewAnswered, OverviewFails, Store, StartRow
  <2> QED
    BY <2>1, SMTT(30)
<1>7. overview' \in Seq({"en", "xx"}) /\ Len(overview') <= items'
  <2>1. \/ overview' = overview
        \/ Len(overview) < items /\ \E l \in {"en", "xx"} : overview' = Append(overview, l)
    BY DEF vars, Unconfigured, Configured, NextChunk, Retry, ChunkFails,
         FieldAnswered, RowsDone, OverviewAnswered, OverviewFails, Store
  <2>2. overview \in Seq({"en", "xx"}) /\ Len(overview) <= items /\ items' = items /\ items \in Nat
    BY <1>0 DEF TypeOK
  <2>3. \A s \in Seq({"en", "xx"}), l \in {"en", "xx"} :
           Append(s, l) \in Seq({"en", "xx"}) /\ Len(Append(s, l)) = Len(s) + 1 /\ Len(s) \in Nat
    OBVIOUS
  <2>4. CASE overview' = overview
    BY <2>2, <2>4
  <2>5. ASSUME Len(overview) < items, NEW l \in {"en", "xx"}, overview' = Append(overview, l)
        PROVE  overview' \in Seq({"en", "xx"}) /\ Len(overview') <= items'
    <3>1. /\ overview' \in Seq({"en", "xx"}) /\ Len(overview') = Len(overview) + 1
          /\ Len(overview) \in Nat
      BY ONLY <2>2, <2>3, <2>5
    <3> QED
      BY ONLY <3>1, <2>2, <2>5
  <2> QED
    BY <2>1, <2>4, <2>5
<1>8. stored'.fallback \subseteq ids' /\ stored'.error \in BOOLEAN
  <2>1. CASE Unconfigured
    BY <2>1, <1>0 DEF Unconfigured, NotStored
  <2>2. CASE Store
    <3>1. stored'.fallback = {rows[r].id : r \in FellBack} /\ stored'.error = (FellBack # {})
      BY <2>2 DEF Store
    <3>2. FellBack \subseteq DOMAIN rows
      BY DEF FellBack
    <3> QED
      BY <3>1, <3>2, <1>0 DEF ids
  <2>3. CASE ~Unconfigured /\ ~Store
    <3>1. stored' = stored
      BY <2>3 DEF vars, Configured, NextChunk, Retry, ChunkFails,
         FieldAnswered, RowsDone, OverviewAnswered, OverviewFails
    <3> QED
      BY <3>1, <1>0 DEF TypeOK
  <2> QED
    BY <2>1, <2>2, <2>3
<1>9. hiccups' \in 0..Attempts /\ failed' \in Nat /\ dropped' \in Nat
  <2>1. /\ hiccups' = hiccups \/ (hiccups < Attempts /\ hiccups' = hiccups + 1)
        /\ failed' = failed \/ failed' = failed + 1
        /\ dropped' = dropped
    BY DEF vars, Unconfigured, Configured, NextChunk, Retry, ChunkFails,
         FieldAnswered, RowsDone, OverviewAnswered, OverviewFails, Store, Raises
  <2> QED
    BY <2>1, SMTT(30)
<1> QED
  BY <1>1, <1>2, <1>3, <1>4, <1>5, <1>6, <1>7, <1>8, <1>9 DEF TypeOK

(* A row is settled.                                                        *)
LEMMA TypeSettle ==
    ASSUME TypeOK, Places, pc = "field", NEW value, Settle(row, value),
           DOMAIN value.texts = Field, value.fallback \in BOOLEAN,
           UNCHANGED <<rows, items, hi, overview, stored, dropped>>,
           hiccups' \in 0..Attempts, failed' \in Nat
    PROVE  TypeOK'
<1> USE NumbersAre, RowsAre
<1>0. ids' = ids /\ Len(rows)' = Len(rows)
  BY DEF ids
<1>1. /\ DOMAIN out' = {rows[row].id} \cup DOMAIN out
      /\ out'[rows[row].id] = value
      /\ \A id \in DOMAIN out : id # rows[row].id => out'[id] = out[id]
      /\ \/ row < hi /\ pc' = "field" /\ row' = row + 1 /\ todo' = rows[row + 1].has
            /\ attempt' = 1 /\ lo' = lo
         \/ ~(row < hi) /\ pc' = "pack" /\ lo' = hi + 1 /\ row' = row /\ todo' = todo
            /\ attempt' = attempt
  BY SettleIs
<1>2. rows[row].id \in ids /\ hi \in 1..Len(rows)
  BY SMTT(30) DEF ids, Places
<1>3. /\ DOMAIN out' \subseteq ids'
      /\ \A id \in DOMAIN out' : DOMAIN out'[id].texts = Field /\ out'[id].fallback \in BOOLEAN
  BY <1>0, <1>1, <1>2 DEF TypeOK
<1>4. /\ pc' \in {"field", "pack"} /\ lo' \in 1..(Len(rows) + 1) /\ attempt' \in 1..Attempts
      /\ row' \in 1..Len(rows) /\ todo' \subseteq Field
  <2>1. row < hi => row + 1 \in 1..Len(rows) /\ rows[row + 1].has \subseteq Field
    BY <1>2, SMTT(30)
  <2>2. todo \subseteq Field
    BY DEF TypeOK
  <2>3. CASE row < hi
    <3>1. pc' = "field" /\ row' = row + 1 /\ todo' = rows[row + 1].has /\ attempt' = 1 /\ lo' = lo
      BY ONLY <1>1, <2>3
    <3> QED
      BY <3>1, <2>1, <2>3, SMTT(30)
  <2>4. CASE ~(row < hi)
    <3>1. pc' = "pack" /\ lo' = hi + 1 /\ row' = row /\ todo' = todo /\ attempt' = attempt
      BY ONLY <1>1, <2>4
    <3> QED
      BY <3>1, <1>2, <2>2
  <2> QED
    BY <2>3, <2>4
<1> QED
  BY <1>0, <1>3, <1>4 DEF TypeOK

LEMMA TypeField ==
    ASSUME TypeOK, Places, RowTranslated \/ FieldFails
    PROVE  TypeOK'
<1>1. CASE RowTranslated
  <2> DEFINE value == Translated(row, AllOwn(row, "xx"))
  <2>1. DOMAIN value.texts = Field /\ value.fallback \in BOOLEAN
    BY ResultTypes DEF AllOwn
  <2>2. /\ pc = "field" /\ Settle(row, value)
        /\ UNCHANGED <<rows, items, hi, overview, stored, hiccups, failed, dropped>>
    BY <1>1 DEF RowTranslated
  <2>3. hiccups' \in 0..Attempts /\ failed' \in Nat
    BY <2>2 DEF TypeOK
  <2> HIDE DEF value
  <2> QED
    BY <2>1, <2>2, <2>3, TypeSettle
<1>2. CASE FieldFails
  <2> DEFINE value == English(row)
  <2>1. DOMAIN value.texts = Field /\ value.fallback \in BOOLEAN
    BY ResultTypes
  <2>2. /\ pc = "field" /\ Settle(row, value) /\ Raises
        /\ UNCHANGED <<rows, items, hi, overview, stored, dropped>>
    BY <1>2 DEF FieldFails
  <2>3. hiccups' \in 0..Attempts /\ failed' \in Nat
    BY <2>2, NumbersAre, SMTT(30) DEF Raises, TypeOK
  <2> HIDE DEF value
  <2> QED
    BY <2>1, <2>2, <2>3, TypeSettle
<1> QED
  BY <1>1, <1>2

LEMMA TypeChunk ==
    ASSUME TypeOK, Places, ChunkAnswered
    PROVE  TypeOK'
<1> USE NumbersAre, RowsAre
<1>0. /\ pc = "chunk" /\ pc' = "pack" /\ lo' = hi + 1
      /\ UNCHANGED <<rows, items, hi, row, todo, attempt, overview, stored, hiccups, failed>>
      /\ ids' = ids
  BY DEF ChunkAnswered, ids
<1>1. PICK ans \in Answers(lo, hi - lo + 1) :
        LET parsed == Decoded(ans, lo, hi - lo + 1)
        IN  /\ out' = Put(ChunkResult(parsed))
            /\ dropped' = dropped + Cardinality({r \in lo..hi : rows[r].id \notin DOMAIN parsed})
  BY ChunkAnsweredIs
<1> DEFINE parsed == Decoded(ans, lo, hi - lo + 1)
           new == ChunkResult(parsed)
           lost == {r \in lo..hi : rows[r].id \notin DOMAIN parsed}
<1>2. \A id \in DOMAIN parsed : DOMAIN parsed[id] = Field
  BY DecodedType
<1>3. dropped' = dropped + Cardinality(lost) /\ out' = Put(new)
  BY <1>1
<1> HIDE DEF parsed
<1>4. /\ DOMAIN new = {rows[r].id : r \in lo..hi}
      /\ \A id \in DOMAIN new : \E r \in lo..hi :
           /\ r \in DOMAIN rows /\ rows[r].id = id
           /\ new[id] = IF id \in DOMAIN parsed THEN Translated(r, parsed[id]) ELSE English(r)
  BY ChunkResultIs
<1> HIDE DEF new
<1>6. ASSUME NEW id \in DOMAIN new
      PROVE  DOMAIN new[id].texts = Field /\ new[id].fallback \in BOOLEAN
  <2>1. PICK r \in lo..hi :
          new[id] = IF id \in DOMAIN parsed THEN Translated(r, parsed[id]) ELSE English(r)
    BY <1>4
  <2>2. CASE id \in DOMAIN parsed
    <3>1. new[id] = Translated(r, parsed[id]) /\ DOMAIN parsed[id] = Field
      BY <2>1, <2>2, <1>2
    <3>2. /\ DOMAIN Translated(r, parsed[id]).texts = Field
          /\ Translated(r, parsed[id]).fallback = FALSE
      BY ONLY <3>1, ResultTypes, Zenon
    <3> QED
      BY ONLY <3>1, <3>2
  <2>3. CASE id \notin DOMAIN parsed
    <3>1. new[id] = English(r)
      BY <2>1, <2>3
    <3> QED
      BY ONLY <3>1, ResultTypes
  <2> QED
    BY <2>2, <2>3
<1>7. /\ DOMAIN out' = DOMAIN new \cup DOMAIN out
      /\ \A id \in DOMAIN new : out'[id] = new[id]
      /\ \A id \in DOMAIN out : id \notin DOMAIN new => out'[id] = out[id]
  BY ONLY <1>3, PutIs
<1>8. DOMAIN new \subseteq ids
  <2>1. \A r \in lo..hi : r \in DOMAIN rows
    BY SMTT(30)
  <2> QED
    BY <2>1, <1>4 DEF ids
<1>9. /\ DOMAIN out' \subseteq ids'
      /\ \A id \in DOMAIN out' : DOMAIN out'[id].texts = Field /\ out'[id].fallback \in BOOLEAN
  BY <1>0, <1>6, <1>7, <1>8 DEF TypeOK
<1>10. Cardinality(lost) \in Nat
  <2>1. IsFiniteSet(lo..hi) /\ lost \subseteq lo..hi
    BY FS_Interval
  <2> QED
    BY <2>1, FS_Subset, FS_CardinalityType
<1>11. dropped' \in Nat
  <2> HIDE DEF lost
  <2> QED
    BY <1>3, <1>10, SMTT(30)
<1>12. lo' \in 1..(Len(rows) + 1) /\ pc' = "pack"
  BY <1>0, SMTT(30) DEF Places
<1> QED
  BY <1>0, <1>9, <1>11, <1>12 DEF TypeOK

LEMMA TypeStep ==
    ASSUME TypeOK, Places, [Next]_vars
    PROVE  TypeOK'
BY TypeCalm, TypeField, TypeChunk DEF Next

-----------------------------------------------------------------------------
(* The loops.                                                               *)

LEMMA PlacesStep ==
    ASSUME TypeOK, Places, [Next]_vars
    PROVE  Places'
<1> USE NumbersAre
<1>1. CASE UNCHANGED vars
  BY <1>1 DEF Places, vars, NotStored
<1>2. CASE Unconfigured
  BY <1>2 DEF Places, Unconfigured
<1>3. CASE Configured
  BY <1>3 DEF Places, Configured, NotStored
<1>4. CASE NextChunk
  <2>1. lo \in 1..Len(rows) /\ pc = "pack" /\ hi' = ChunkEnd(lo) /\ lo' = lo /\ stored' = stored
    BY <1>4 DEF NextChunk
  <2>2. hi' \in lo..Len(rows)
    BY <2>1, ChunkEndIs
  <2>3. pc' = "chunk" \/ (pc' = "field" /\ row' = lo)
    BY <1>4 DEF NextChunk, StartRow
  <2> QED
    BY <2>1, <2>2, <2>3, SMTT(30) DEF Places, NotStored
<1>5. CASE Retry
  BY <1>5 DEF Places, Retry, call, NotStored, Calling
<1>6. CASE ChunkAnswered
  BY <1>6 DEF Places, ChunkAnswered, NotStored
<1>7. CASE ChunkFails
  BY <1>7 DEF Places, ChunkFails, StartRow, NotStored
<1>8. CASE FieldAnswered
  BY <1>8 DEF Places, FieldAnswered, NotStored
<1>9. CASE RowTranslated \/ FieldFails
  <2>1. /\ pc = "field" /\ hi' = hi /\ stored' = stored
        /\ Settle(row, Translated(row, AllOwn(row, "xx"))) \/ Settle(row, English(row))
    BY <1>9 DEF RowTranslated, FieldFails
  <2>2. \/ row < hi /\ pc' = "field" /\ row' = row + 1 /\ lo' = lo
        \/ pc' = "pack"
    BY <2>1 DEF Settle, StartRow
  <2>3. row \in lo..hi /\ lo <= hi /\ stored = NotStored
    BY <2>1 DEF Places
  <2>4. row < hi => row + 1 \in lo..hi
    BY <2>3
  <2> QED
    BY <2>1, <2>2, <2>3, <2>4 DEF Places, NotStored
<1>10. CASE RowsDone
  BY <1>10 DEF Places, RowsDone, call, NotStored
<1>11. CASE OverviewAnswered \/ OverviewFails
  BY <1>11 DEF Places, OverviewAnswered, OverviewFails, call, NotStored
<1>12. CASE Store
  BY <1>12 DEF Places, Store
<1> QED
  BY <1>1, <1>2, <1>3, <1>4, <1>5, <1>6, <1>7, <1>8, <1>9, <1>10, <1>11, <1>12 DEF Next

(* A chunk is only sent when it fits.                                       *)
LEMMA LengthStays ==
    ASSUME rows' = rows, lo' = lo
    PROVE  EncodedLength(lo, hi)' = EncodedLength(lo, hi')
BY DEF EncodedLength, Digits, FoldLeft, MapThenFoldSet, Max

LEMMA FitsStep ==
    ASSUME TypeOK, Places, Fits, [Next]_vars
    PROVE  Fits'
<1> SUFFICES ASSUME pc' = "chunk" PROVE EncodedLength(lo, hi)' <= MaxChars
  BY DEF Fits
<1>1. rows' = rows /\ lo' = lo
  BY DEF Next, vars, call, Unconfigured, Configured, NextChunk, Retry, ChunkAnswered, ChunkFails,
         FieldAnswered, RowTranslated, FieldFails, Settle, StartRow, RowsDone,
         OverviewAnswered, OverviewFails, Store
<1>2. EncodedLength(lo, hi)' = EncodedLength(lo, hi')
  BY <1>1, LengthStays
<1>3. CASE NextChunk
  <2>1. lo \in 1..Len(rows) /\ hi' = ChunkEnd(lo) /\ ~(lo = ChunkEnd(lo) /\ Oversize(lo))
    BY <1>3, NumbersAre DEF NextChunk, StartRow
  <2>2. ChunkEnd(lo) = lo \/ EncodedLength(lo, ChunkEnd(lo)) <= MaxChars
    BY <2>1, NumbersAre, ChunkEndIs
  <2>3. CASE ChunkEnd(lo) = lo
    <3>1. ~(EncodedLength(lo, lo) > MaxChars)
      BY <2>1, <2>3 DEF Oversize
    <3>2. EncodedLength(lo, lo) \in Int /\ MaxChars \in Int
      <4>1. lo \in 1..Len(rows) /\ rows \in Inputs
        BY <2>1, NumbersAre
      <4> QED
        BY <4>1, LengthType, NumbersAssumption
    <3> QED
      BY <3>1, <3>2, <1>2, <2>1, <2>3
  <2> QED
    BY <1>2, <2>1, <2>2, <2>3
<1>4. CASE ~NextChunk
  <2>1. pc = "chunk" /\ hi' = hi
    BY <1>4 DEF Next, vars, call, Unconfigured, Configured, Retry, ChunkAnswered, ChunkFails,
         FieldAnswered, RowTranslated, FieldFails, Settle, StartRow, RowsDone,
         OverviewAnswered, OverviewFails, Store
  <2> QED
    BY <1>2, <2>1 DEF Fits
<1> QED
  BY <1>3, <1>4

(* Results are entered row by row, in order.                                *)
LEMMA EnteredStep ==
    ASSUME TypeOK, Places, Entered, [Next]_vars
    PROVE  Entered'
<1> SUFFICES ASSUME pc' # "done" PROVE DOMAIN out' = {rows'[r].id : r \in Behind'}
  BY DEF Entered
<1>0. rows' = rows /\ pc # "done"
  BY DEF Next, vars, Unconfigured, Configured, NextChunk, Retry, ChunkAnswered, ChunkFails,
         FieldAnswered, RowTranslated, FieldFails, RowsDone, OverviewAnswered, OverviewFails, Store
<1>1. DOMAIN out = {rows[r].id : r \in Behind}
  BY <1>0 DEF Entered
<1>2. CASE ~(ChunkAnswered \/ RowTranslated \/ FieldFails)
  <2>1. out' = out
    BY <1>2 DEF Next, vars, Unconfigured, Configured, NextChunk, Retry, ChunkFails,
         FieldAnswered, RowsDone, OverviewAnswered, OverviewFails, Store
  <2>2. \/ (pc' = "field" <=> pc = "field") /\ lo' = lo /\ row' = row
        \/ pc # "field" /\ pc' = "field" /\ lo' = lo /\ row' = lo
    BY <1>2 DEF Next, vars, call, Unconfigured, Configured, NextChunk, Retry, ChunkFails,
         FieldAnswered, RowsDone, OverviewAnswered, OverviewFails, Store, StartRow
  <2>3. Behind' = Behind
    BY <2>2 DEF Behind
  <2> QED
    BY <1>0, <1>1, <2>1, <2>3
<1>3. CASE RowTranslated \/ FieldFails
  <2>1. /\ pc = "field" /\ hi' = hi
        /\ \E value : Settle(row, value)
    BY <1>3 DEF RowTranslated, FieldFails
  <2>2. /\ DOMAIN out' = {rows[row].id} \cup DOMAIN out
        /\ \/ row < hi /\ pc' = "field" /\ row' = row + 1
           \/ ~(row < hi) /\ pc' = "pack" /\ lo' = hi + 1
    BY <2>1, SettleIs
  <2>3. row \in lo..hi
    BY <2>1 DEF Places
  <2>4. Behind = 1..(row - 1) /\ Behind' = 1..row
    BY <2>1, <2>2, <2>3, NumbersAre, SMTT(30) DEF Behind
  <2>5. 1..row = (1..(row - 1)) \cup {row}
    BY NumbersAre
  <2> QED
    BY <1>0, <1>1, <2>2, <2>4, <2>5
<1>4. CASE ChunkAnswered
  <2>1. pc = "chunk" /\ pc' = "pack" /\ lo' = hi + 1 /\ lo <= hi
    BY <1>4 DEF ChunkAnswered, Places
  <2>2. PICK parsed : out' = Put(ChunkResult(parsed))
    BY <1>4, ChunkAnsweredIs
  <2>3. DOMAIN out' = {rows[r].id : r \in lo..hi} \cup DOMAIN out
    <3> DEFINE new == ChunkResult(parsed)
    <3>1. out' = Put(new) /\ DOMAIN new = {rows[r].id : r \in lo..hi}
      BY <2>2, ChunkResultIs
    <3> HIDE DEF new
    <3>2. DOMAIN out' = DOMAIN new \cup DOMAIN out
      BY ONLY <3>1, PutIs
    <3> QED
      BY <3>1, <3>2
  <2>4. Behind = 1..(lo - 1) /\ Behind' = 1..hi
    BY <2>1, NumbersAre, SMTT(30) DEF Behind
  <2>5. 1..hi = (1..(lo - 1)) \cup (lo..hi)
    BY <2>1, NumbersAre, SMTT(30)
  <2> QED
    BY <1>0, <1>1, <2>3, <2>4, <2>5
<1> QED
  BY <1>2, <1>3, <1>4

LEMMA CountedStep ==
    ASSUME TypeOK, Counted, [Next]_vars
    PROVE  Counted'
<1>1. \/ attempt' = attempt /\ hiccups' = hiccups
      \/ attempt' = attempt + 1 /\ (IF hiccups < Attempts THEN hiccups' = hiccups + 1 ELSE hiccups' = hiccups)
      \/ attempt' = 1 /\ (hiccups' = hiccups \/ hiccups' = hiccups + 1)
      \/ attempt' = attempt /\ hiccups' = hiccups + 1
  BY DEF Next, vars, Unconfigured, Configured, NextChunk, Retry, ChunkAnswered, ChunkFails,
         FieldAnswered, RowTranslated, FieldFails, RowsDone, OverviewAnswered, OverviewFails, Store,
         StartRow, Settle, Raises
<1> QED
  BY <1>1, NumbersAre, SMTT(30) DEF Counted

-----------------------------------------------------------------------------
(* A failed call costs a row at most.                                       *)

IsEnglish == {id \in DOMAIN out : out[id].fallback}

LEMMA IdsFinite ==
    ASSUME NEW R, IsFiniteSet(R)
    PROVE  /\ IsFiniteSet({rows[r].id : r \in R})
           /\ Cardinality({rows[r].id : r \in R}) <= Cardinality(R)
<1> DEFINE S == {rows[r].id : r \in R}
           f == [r \in R |-> rows[r].id]
<1>1. f \in Surjection(R, S)
  BY DEF Surjection
<1> QED
  BY <1>1, FS_Surjection

LEMMA EnglishFinite ==
    ASSUME TypeOK
    PROVE  IsFiniteSet(IsEnglish) /\ Cardinality(IsEnglish) \in Nat
<1>1. IsFiniteSet(1..Len(rows)) /\ DOMAIN rows = 1..Len(rows)
  BY NumbersAre, FS_Interval
<1>2. IsFiniteSet(ids)
  BY <1>1, IdsFinite DEF ids
<1>3. IsEnglish \subseteq ids
  BY DEF IsEnglish, TypeOK
<1> QED
  BY <1>2, <1>3, FS_Subset, FS_CardinalityType

(* Results for the rows of R alone may add English.                         *)
LEMMA EnglishGrows ==
    ASSUME TypeOK, NEW R, IsFiniteSet(R), IsEnglish' \subseteq IsEnglish \cup {rows[r].id : r \in R}
    PROVE  /\ Cardinality(IsEnglish') \in Nat
           /\ Cardinality(IsEnglish') <= Cardinality(IsEnglish) + Cardinality(R)
<1> DEFINE S == {rows[r].id : r \in R}
           A == IsEnglish
           B == IsEnglish'
<1>1. IsFiniteSet(A) /\ Cardinality(A) \in Nat
  BY EnglishFinite
<1>2. IsFiniteSet(S) /\ Cardinality(S) <= Cardinality(R)
  BY IdsFinite
<1>3. B \subseteq A \cup S /\ IsFiniteSet(R)
  OBVIOUS
<1> HIDE DEF A, B, S
<1>4. Cardinality(S) \in Nat /\ Cardinality(R) \in Nat
  BY <1>2, <1>3, FS_CardinalityType
<1>5. /\ IsFiniteSet(A \cup S)
      /\ Cardinality(A \cup S) = Cardinality(A) + Cardinality(S) - Cardinality(A \cap S)
  BY <1>1, <1>2, FS_Union
<1>6. Cardinality(A \cap S) \in Nat
  BY <1>1, FS_Intersection, FS_CardinalityType
<1>7. IsFiniteSet(B) /\ Cardinality(B) <= Cardinality(A \cup S)
  BY <1>3, <1>5, FS_Subset
<1>8. Cardinality(B) \in Nat
  BY <1>7, FS_CardinalityType
<1>9. Cardinality(B) <= Cardinality(A) + Cardinality(R)
  BY <1>1, <1>2, <1>4, <1>5, <1>6, <1>7, <1>8
<1> QED
  BY <1>8, <1>9 DEF A, B

LEMMA FailuresStep ==
    ASSUME TypeOK, Counted, FailuresStayLocal, [Next]_vars
    PROVE  FailuresStayLocal'
<1> USE NumbersAre
<1> SUFFICES ASSUME hiccups' < Attempts
             PROVE  Cardinality(IsEnglish') <= failed' + dropped'
  BY DEF FailuresStayLocal, IsEnglish
<1>1. /\ hiccups' = hiccups \/ hiccups' = hiccups + 1
      /\ failed' = failed \/ failed' = failed + 1
  BY DEF Next, vars, Unconfigured, Configured, NextChunk, Retry, ChunkAnswered, ChunkFails,
         FieldAnswered, RowTranslated, FieldFails, RowsDone, OverviewAnswered, OverviewFails, Store,
         Raises
<1>2. hiccups < Attempts /\ attempt <= hiccups + 1 /\ Cardinality(IsEnglish) <= failed + dropped
  <2>1. hiccups < Attempts
    BY <1>1
  <2> QED
    BY <2>1 DEF Counted, FailuresStayLocal, IsEnglish
<1>3. Cardinality(IsEnglish) \in Nat
  BY EnglishFinite
<1>8. failed \in Nat /\ dropped \in Nat
  OBVIOUS
<1>4. CASE ~(ChunkAnswered \/ RowTranslated \/ FieldFails)
  <2>1. out' = out /\ dropped' = dropped
    BY <1>4 DEF Next, vars, Unconfigured, Configured, NextChunk, Retry, ChunkFails,
         FieldAnswered, RowsDone, OverviewAnswered, OverviewFails, Store
  <2>2. Cardinality(IsEnglish') = Cardinality(IsEnglish)
    BY <2>1 DEF IsEnglish
  <2> QED
    BY <1>1, <1>2, <1>3, <2>1, <2>2, SMTT(30)
<1>5. CASE RowTranslated
  <2> DEFINE value == Translated(row, AllOwn(row, "xx"))
  <2>1. Settle(row, value) /\ failed' = failed /\ dropped' = dropped
    BY <1>5 DEF RowTranslated
  <2>2. ~value.fallback
    BY DEF Translated
  <2> HIDE DEF value
  <2>3. /\ DOMAIN out' = {rows[row].id} \cup DOMAIN out
        /\ out'[rows[row].id] = value
        /\ \A id \in DOMAIN out : id # rows[row].id => out'[id] = out[id]
    BY ONLY <2>1, SettleIs
  <2>4. IsEnglish' \subseteq IsEnglish \cup {rows[r].id : r \in {}}
    BY <2>2, <2>3 DEF IsEnglish
  <2>5. IsFiniteSet({}) /\ Cardinality({}) = 0
    BY FS_EmptySet
  <2>6. Cardinality(IsEnglish') \in Nat /\ Cardinality(IsEnglish') <= Cardinality(IsEnglish) + 0
    BY <2>4, <2>5, EnglishGrows
  <2> QED
    BY <1>2, <1>3, <2>1, <2>6, SMTT(30)
<1>6. CASE FieldFails
  <2> DEFINE value == English(row)
  <2>1. Settle(row, value) /\ Raises /\ dropped' = dropped
    BY <1>6 DEF FieldFails
  <2>2. failed' = failed + 1
    BY <1>2, <2>1 DEF Raises
  <2> HIDE DEF value
  <2>3. /\ DOMAIN out' = {rows[row].id} \cup DOMAIN out
        /\ out'[rows[row].id] = value
        /\ \A id \in DOMAIN out : id # rows[row].id => out'[id] = out[id]
    BY ONLY <2>1, SettleIs
  <2>4. IsEnglish' \subseteq IsEnglish \cup {rows[r].id : r \in {row}}
    BY <2>3 DEF IsEnglish
  <2>5. IsFiniteSet({row}) /\ Cardinality({row}) = 1
    BY FS_Singleton
  <2>6. Cardinality(IsEnglish') \in Nat /\ Cardinality(IsEnglish') <= Cardinality(IsEnglish) + 1
    BY <2>4, <2>5, EnglishGrows
  <2> QED
    BY ONLY <1>2, <1>3, <2>1, <2>2, <2>6, <1>8
<1>7. CASE ChunkAnswered
  <2>1. PICK ans \in Answers(lo, hi - lo + 1) :
        LET parsed == Decoded(ans, lo, hi - lo + 1)
        IN  /\ out' = Put(ChunkResult(parsed))
            /\ dropped' = dropped + Cardinality({r \in lo..hi : rows[r].id \notin DOMAIN parsed})
    BY <1>7, ChunkAnsweredIs
  <2> DEFINE parsed == Decoded(ans, lo, hi - lo + 1)
             new == ChunkResult(parsed)
             lost == {r \in lo..hi : rows[r].id \notin DOMAIN parsed}
  <2>2. dropped' = dropped + Cardinality(lost) /\ out' = Put(new)
    BY <2>1
  <2> HIDE DEF parsed
  <2>3. /\ DOMAIN new = {rows[r].id : r \in lo..hi}
        /\ \A id \in DOMAIN new : \E r \in lo..hi :
             /\ r \in DOMAIN rows /\ rows[r].id = id
             /\ new[id] = IF id \in DOMAIN parsed THEN Translated(r, parsed[id]) ELSE English(r)
    BY ChunkResultIs
  <2> HIDE DEF new
  <2>4. /\ DOMAIN out' = DOMAIN new \cup DOMAIN out
        /\ \A id \in DOMAIN new : out'[id] = new[id]
        /\ \A id \in DOMAIN out : id \notin DOMAIN new => out'[id] = out[id]
    BY ONLY <2>2, PutIs
  <2>5. ASSUME NEW id \in DOMAIN new, new[id].fallback PROVE \E r \in lost : rows[r].id = id
    <3>1. \A r : ~Translated(r, parsed[id]).fallback
      BY DEF Translated
    <3>2. PICK r \in lo..hi :
            /\ r \in DOMAIN rows /\ rows[r].id = id
            /\ new[id] = IF id \in DOMAIN parsed THEN Translated(r, parsed[id]) ELSE English(r)
      BY <2>3, <2>5
    <3>3. id \notin DOMAIN parsed
      BY <2>5, <3>1, <3>2
    <3> QED
      BY <3>2, <3>3
  <2>6. IsEnglish' \subseteq IsEnglish \cup {rows[r].id : r \in lost}
    <3>1. ASSUME NEW id \in IsEnglish' PROVE id \in IsEnglish \cup {rows[r].id : r \in lost}
      <4>1. id \in DOMAIN out' /\ out'[id].fallback
        BY DEF IsEnglish
      <4>2. CASE id \in DOMAIN new
        <5> HIDE DEF lost
        <5> QED
          BY <4>1, <4>2, <2>4, <2>5
      <4>3. CASE id \notin DOMAIN new
        BY <4>1, <4>3, <2>4 DEF IsEnglish
      <4> QED
        BY <4>2, <4>3
    <3> QED
      BY <3>1
  <2>7. IsFiniteSet(lost) /\ Cardinality(lost) \in Nat
    <3>1. IsFiniteSet(lo..hi) /\ lost \subseteq lo..hi
      BY FS_Interval
    <3> QED
      BY <3>1, FS_Subset, FS_CardinalityType
  <2> HIDE DEF lost
  <2>8. /\ Cardinality(IsEnglish') \in Nat
        /\ Cardinality(IsEnglish') <= Cardinality(IsEnglish) + Cardinality(lost)
    BY <2>6, <2>7, EnglishGrows
  <2>9. failed' = failed
    BY <1>7 DEF ChunkAnswered
  <2> QED
    BY ONLY <1>2, <1>3, <2>2, <2>7, <2>8, <2>9, <1>8
<1> QED
  BY <1>4, <1>5, <1>6, <1>7

-----------------------------------------------------------------------------
(* What the worker sees.                                                    *)

(* The texts of a row, in either language, are its own; an action that is   *)
(* null shows nothing.                                                      *)
LEMMA TextsAre ==
    ASSUME rows \in Inputs, NEW r \in DOMAIN rows
    PROVE  /\ \A f \in Field : English(r).texts[f] = Own(r, f, "en")
           /\ Sees(rows[r].id, Translated(r, AllOwn(r, "xx")).texts)
           /\ \A id, t : DOMAIN t = Field /\ Sees(id, t) => Sees(id, Translated(r, t).texts)
<1>1. rows[r].nullAction => 3 \notin rows[r].has
  BY RowsAre
<1>2. 3 \in Field
  BY DEF Field
<1>3. English(r).texts = Translated(r, AllOwn(r, "en")).texts
  BY DEF English, Translated
<1>4. ASSUME NEW t, DOMAIN t = Field, NEW f \in Field
      PROVE  Translated(r, t).texts[f] = IF rows[r].nullAction /\ f = 3 THEN <<>> ELSE t[f]
  BY <1>4 DEF Translated
<1>5. \A l : DOMAIN AllOwn(r, l) = Field /\ \A f \in Field : AllOwn(r, l)[f] = Own(r, f, l)
  BY DEF AllOwn
<1>6. \A l : rows[r].nullAction => Own(r, 3, l) = <<>>
  BY <1>1 DEF Own
<1>7. \A f \in Field : English(r).texts[f] = Own(r, f, "en")
  BY <1>3, <1>4, <1>5, <1>6
<1>8. ASSUME NEW id, NEW t, DOMAIN t = Field, Sees(id, t) PROVE Sees(id, Translated(r, t).texts)
  <2> DEFINE new == Translated(r, t).texts
  <2>1. <<>> \in Seq(Token)
    OBVIOUS
  <2>2. \A f \in Field : new[f] = <<>> \/ new[f] = t[f]
    BY <1>4, <1>8
  <2> HIDE DEF new
  <2>3. \A f \in Field : new[f] \in Seq(Token)
    BY <1>8, <2>1, <2>2 DEF Sees
  <2>4. PICK q \in DOMAIN rows : rows[q].id = id /\ OwnTexts(q, t)
    BY <1>8 DEF Sees
  <2>5. OwnTexts(q, new)
    BY <2>2, <2>4, Zenon DEF OwnTexts
  <2> QED
    BY <2>3, <2>4, <2>5 DEF Sees, new
<1>9. Sees(rows[r].id, AllOwn(r, "xx"))
  <2>1. r \in Nat
    BY RowsAre
  <2>2. \A f \in Field : <<>> \in Seq(Token) /\ <<Text(r, f, "xx")>> \in Seq(Token)
    <3>1. \A f \in Field : Text(r, f, "xx") \in Token
      BY <2>1, TokensDiffer
    <3> QED
      BY <3>1
  <2>3. \A f \in Field : AllOwn(r, "xx")[f] \in {<<>>, <<Text(r, f, "xx")>>}
    BY <1>5 DEF Own
  <2> QED
    BY <2>2, <2>3 DEF OwnTexts, Sees
<1>10. Sees(rows[r].id, Translated(r, AllOwn(r, "xx")).texts)
  BY <1>5, <1>8, <1>9
<1> QED
  BY <1>7, <1>8, <1>10

LEMMA ShownStep ==
    ASSUME TypeOK, Places, Shown, [Next]_vars
    PROVE  Shown'
<1> USE NumbersAre
<1>0. rows' = rows
  BY DEF Next, vars, Unconfigured, Configured, NextChunk, Retry, ChunkAnswered, ChunkFails,
         FieldAnswered, RowTranslated, FieldFails, RowsDone, OverviewAnswered, OverviewFails, Store
<1>1. \A id, v : Shows(id, v)' <=>
         IF v'.fallback THEN \E r \in DOMAIN rows : rows[r].id = id' /\ v' = English(r)
                        ELSE Sees(id', v'.texts)
  <2>1. \A r, l : Body(r, l)' = Body(r', l')
    BY <1>0 DEF Body, Own, Text, Sep
  <2>2. \A r, t : OwnTexts(r, t)' <=> OwnTexts(r', t')
    BY <1>0 DEF OwnTexts, Body, Own, Text, Sep, Field
  <2>3. \A id, t : Sees(id, t)' <=> Sees(id', t')
    BY <1>0 DEF Sees, OwnTexts, Body, Own, Text, Token, Marker, Sep, Field
  <2> QED
    BY <1>0, <2>3, RowsStay DEF Shows
<1> SUFFICES ASSUME NEW id \in DOMAIN out' PROVE Shows(id, out'[id])
  BY <1>0, <1>1 DEF Shown, Shows
<1>2. id \in DOMAIN out => Shows(id, out[id])
  BY DEF Shown
<1>3. \A r : English(r).fallback /\ \A t : ~Translated(r, t).fallback
  BY DEF English, Translated
<1>4. CASE ~(ChunkAnswered \/ RowTranslated \/ FieldFails)
  <2>1. out' = out
    BY <1>4 DEF Next, vars, Unconfigured, Configured, NextChunk, Retry, ChunkFails,
         FieldAnswered, RowsDone, OverviewAnswered, OverviewFails, Store
  <2> QED
    BY <1>2, <2>1
<1>5. ASSUME NEW value, Settle(row, value), Shows(rows[row].id, value) PROVE Shows(id, out'[id])
  <2>1. /\ DOMAIN out' = {rows[row].id} \cup DOMAIN out
        /\ out'[rows[row].id] = value
        /\ \A i \in DOMAIN out : i # rows[row].id => out'[i] = out[i]
    BY ONLY <1>5, SettleIs
  <2> QED
    BY <2>1, <1>2, <1>5
<1>6. CASE RowTranslated
  <2> DEFINE value == Translated(row, AllOwn(row, "xx"))
  <2>1. Settle(row, value)
    BY <1>6 DEF RowTranslated
  <2>2. ~value.fallback /\ Sees(rows[row].id, value.texts)
    <3>1. row \in DOMAIN rows /\ rows \in Inputs
      OBVIOUS
    <3>2. Sees(rows[row].id, Translated(row, AllOwn(row, "xx")).texts)
      BY ONLY <3>1, TextsAre
    <3> QED
      BY <3>2, <1>3
  <2> HIDE DEF value
  <2>3. Shows(rows[row].id, value)
    BY <2>2 DEF Shows
  <2> QED
    BY <2>1, <2>3, <1>5
<1>7. CASE FieldFails
  <2>1. Settle(row, English(row)) /\ row \in DOMAIN rows
    BY <1>7 DEF FieldFails
  <2>2. Shows(rows[row].id, English(row))
    BY <2>1, <1>3 DEF Shows
  <2> QED
    BY <2>1, <2>2, <1>5
<1>8. CASE ChunkAnswered
  <2>0. pc = "chunk" /\ lo \in 1..Len(rows) /\ hi \in lo..Len(rows)
    BY <1>8, SMTT(30) DEF ChunkAnswered, Places
  <2>1. PICK ans \in Answers(lo, hi - lo + 1) :
        LET parsed == Decoded(ans, lo, hi - lo + 1)
        IN  /\ out' = Put(ChunkResult(parsed))
            /\ dropped' = dropped + Cardinality({q \in lo..hi : rows[q].id \notin DOMAIN parsed})
    BY <1>8, ChunkAnsweredIs
  <2> DEFINE parsed == Decoded(ans, lo, hi - lo + 1)
             new == ChunkResult(parsed)
  <2>2. out' = Put(new)
    BY <2>1
  <2>3. \A i \in DOMAIN parsed : Sees(i, parsed[i])
    BY <2>0, DecodedIsSeen
  <2>4. \A i \in DOMAIN parsed : DOMAIN parsed[i] = Field
    BY DecodedType
  <2> HIDE DEF parsed
  <2>5. /\ DOMAIN new = {rows[q].id : q \in lo..hi}
        /\ \A i \in DOMAIN new : \E q \in lo..hi :
             /\ q \in DOMAIN rows /\ rows[q].id = i
             /\ new[i] = IF i \in DOMAIN parsed THEN Translated(q, parsed[i]) ELSE English(q)
    BY ChunkResultIs
  <2> HIDE DEF new
  <2>6. /\ DOMAIN out' = DOMAIN new \cup DOMAIN out
        /\ \A i \in DOMAIN new : out'[i] = new[i]
        /\ \A i \in DOMAIN out : i \notin DOMAIN new => out'[i] = out[i]
    BY ONLY <2>2, PutIs
  <2>7. CASE id \in DOMAIN new
    <3>1. PICK q \in DOMAIN rows :
            /\ rows[q].id = id
            /\ out'[id] = IF id \in DOMAIN parsed THEN Translated(q, parsed[id]) ELSE English(q)
      <4>1. out'[id] = new[id]
        BY ONLY <2>6, <2>7
      <4>2. PICK q \in lo..hi :
              /\ q \in DOMAIN rows /\ rows[q].id = id
              /\ new[id] = IF id \in DOMAIN parsed THEN Translated(q, parsed[id]) ELSE English(q)
        BY ONLY <2>5, <2>7, Zenon
      <4> QED
        BY ONLY <4>1, <4>2, Zenon
    <3>2. CASE id \in DOMAIN parsed
      <4>1. out'[id] = Translated(q, parsed[id])
        BY <3>1, <3>2
      <4>2. Sees(id, parsed[id]) /\ DOMAIN parsed[id] = Field
        BY <3>2, <2>3, <2>4
      <4>3. Sees(id, Translated(q, parsed[id]).texts)
        BY <4>2, TextsAre
      <4> QED
        BY ONLY <4>1, <4>3, <1>3 DEF Shows
    <3>3. CASE id \notin DOMAIN parsed
      <4>1. out'[id] = English(q)
        BY <3>1, <3>3
      <4> QED
        BY ONLY <3>1, <4>1, <1>3 DEF Shows
    <3> QED
      BY <3>2, <3>3
  <2>8. CASE id \notin DOMAIN new
    BY <2>6, <2>8, <1>2
  <2> QED
    BY <2>7, <2>8
<1> QED
  BY <1>4, <1>6, <1>7, <1>8

LEMMA ResultStays ==
    ASSUME UNCHANGED <<rows, out, overview>>
    PROVE  Result' = Result
BY DEF Result, FellBack, Delivered, English, Translated, AllOwn, Own, Text

LEMMA KeptStep ==
    ASSUME Places, Kept, [Next]_vars
    PROVE  Kept'
<1> SUFFICES ASSUME pc' = "done"
             PROVE  stored' = [NotStored EXCEPT !.error = TRUE] \/ stored' = Result'
  BY DEF Kept, NotStored
<1>1. UNCHANGED vars \/ Unconfigured \/ Store
  BY DEF Next, Configured, NextChunk, Retry, ChunkAnswered, ChunkFails, FieldAnswered,
         RowTranslated, FieldFails, Settle, StartRow, RowsDone, OverviewAnswered, OverviewFails, Calling
<1>2. CASE UNCHANGED vars
  <2>1. stored' = stored /\ pc = "done" /\ Result' = Result
    BY <1>2, ResultStays DEF vars
  <2> QED
    BY <2>1 DEF Kept
<1>3. CASE Unconfigured
  BY <1>3 DEF Unconfigured
<1>4. CASE Store
  <2>1. stored' = Result /\ Result' = Result
    <3>1. stored' = Result
      BY <1>4 DEF Store, Result
    <3>2. UNCHANGED <<rows, out, overview>>
      BY <1>4 DEF Store
    <3> QED
      BY <3>1, <3>2, ResultStays
  <2> QED
    BY <2>1
<1> QED
  BY <1>1, <1>2, <1>3, <1>4


-----------------------------------------------------------------------------
(* The inductive invariant.                                                 *)

IInv == Base /\ Shown /\ Kept

LEMMA AtFirst ==
    ASSUME Init
    PROVE  IInv
<1>1. /\ rows \in Inputs /\ items \in Overviews /\ Len(rows) \in Nat \ {0} /\ Attempts \in Nat \ {0}
      /\ items \in Nat
  BY RowsAre, NumbersAssumption DEF Init
<1>2. TypeOK
  <2>1. <<>> \in Seq({"en", "xx"}) /\ Len(<<>>) = 0 /\ DOMAIN <<>> = {}
    OBVIOUS
  <2> QED
    BY <1>1, <2>1 DEF Init, TypeOK, NotStored
<1>3. Places /\ Fits /\ Counted
  BY <1>1 DEF Init, Places, Fits, Counted
<1>4. DOMAIN out = {}
  BY DEF Init
<1>5. Entered
  <2>1. Behind = {}
    BY DEF Behind, Init
  <2> QED
    BY <2>1, <1>4 DEF Entered
<1>6. FailuresStayLocal
  <2>1. {id \in DOMAIN out : out[id].fallback} = {}
    BY <1>4
  <2>2. Cardinality({}) = 0 /\ failed = 0 /\ dropped = 0
    BY FS_EmptySet DEF Init
  <2> QED
    BY <2>1, <2>2 DEF FailuresStayLocal
<1>7. Shown /\ Kept
  BY <1>4 DEF Shown, Kept, Init
<1> QED
  BY <1>2, <1>3, <1>5, <1>6, <1>7 DEF IInv, Base

LEMMA Invariance == Spec => []IInv
<1>1. Init => IInv
  BY AtFirst
<1>2. IInv /\ [Next]_vars => IInv'
  <2> SUFFICES ASSUME IInv, [Next]_vars PROVE IInv'
    OBVIOUS
  <2>1. TypeOK /\ Places /\ Fits /\ Entered /\ Counted /\ FailuresStayLocal /\ Shown /\ Kept
    BY DEF IInv, Base
  <2>2. TypeOK' /\ Places' /\ Fits'
    BY <2>1, TypeStep, PlacesStep, FitsStep
  <2>3. Entered' /\ Counted' /\ FailuresStayLocal'
    BY <2>1, EnteredStep, CountedStep, FailuresStep
  <2>4. Shown' /\ Kept'
    BY <2>1, ShownStep, KeptStep
  <2> QED
    BY <2>2, <2>3, <2>4 DEF IInv, Base
<1> QED
  BY <1>1, <1>2, PTL DEF Spec

(* What is delivered of a row.                                              *)
LEMMA DeliveredIs ==
    ASSUME rows \in Inputs, Shown, NEW r \in DOMAIN rows
    PROVE  /\ r \in FellBack => \E q \in DOMAIN rows : /\ rows[q].id = rows[r].id
                                                       /\ Delivered(r).texts = English(q).texts
           /\ r \notin FellBack => Sees(rows[r].id, Delivered(r).texts)
           /\ FellBack \subseteq DOMAIN rows
<1>1. English(r).fallback
  BY DEF English
<1>2. IF Delivered(r).fallback
        THEN \E q \in DOMAIN rows : rows[q].id = rows[r].id /\ Delivered(r) = English(q)
        ELSE Sees(rows[r].id, Delivered(r).texts)
  BY <1>1 DEF Shown, Shows, Delivered
<1> QED
  BY <1>2 DEF FellBack

(* What is stored of a row, when rows are stored.                           *)
LEMMA StoredIs ==
    ASSUME IInv, stored.rendered # <<>>
    PROVE  /\ rows \in Inputs /\ FellBack \subseteq DOMAIN rows
           /\ DOMAIN stored.rendered = DOMAIN rows
           /\ \A r \in DOMAIN rows : stored.rendered[r] = Delivered(r).texts
           /\ stored.fallback = {rows[r].id : r \in FellBack} /\ stored.error = (FellBack # {})
<1>1. stored = Result
  <2>1. NotStored.rendered = <<>> /\ [NotStored EXCEPT !.error = TRUE].rendered = <<>>
    BY DEF NotStored
  <2> QED
    BY <2>1 DEF IInv, Base, Places, Kept
<1>2. stored.rendered = [r \in DOMAIN rows |-> Delivered(r).texts]
  BY <1>1 DEF Result
<1>3. stored.fallback = {rows[r].id : r \in FellBack} /\ stored.error = (FellBack # {})
  BY <1>1 DEF Result
<1> QED
  BY <1>2, <1>3 DEF FellBack, IInv, Base, TypeOK

(* English shows only where the fallback list says so.                      *)
LEMMA LabelsAreHonest ==
    ASSUME IInv
    PROVE  HonestLabels
<1> SUFFICES ASSUME stored.rendered # <<>> PROVE HonestLabels
  BY DEF HonestLabels
<1> DEFINE english == {r \in DOMAIN rows : \E f \in Field : \E i \in DOMAIN stored.rendered[r][f] :
                         stored.rendered[r][f][i] \in EnglishTexts}
           blank   == {r \in DOMAIN rows : rows[r].has = {}}
<1>1. /\ rows \in Inputs /\ FellBack \subseteq DOMAIN rows
      /\ \A r \in DOMAIN rows : stored.rendered[r] = Delivered(r).texts
      /\ stored.fallback = {rows[r].id : r \in FellBack} /\ stored.error = (FellBack # {})
  BY StoredIs
<1>2. Shown
  BY DEF IInv
<1>3. \A t \in Token : t \notin EnglishTexts
  <2>1. \A t \in Token : t.kind = "text" => t.lang = "xx"
    BY DEF Token, Marker, Sep, Text
  <2>2. \A t \in EnglishTexts : t.kind = "text" /\ t.lang = "en"
    BY DEF EnglishTexts, Text
  <2> QED
    BY <2>1, <2>2
<1>4. english \subseteq FellBack
  <2> SUFFICES ASSUME NEW r \in english, r \notin FellBack PROVE FALSE
    OBVIOUS
  <2>1. PICK f \in Field : \E i \in DOMAIN stored.rendered[r][f] : stored.rendered[r][f][i] \in EnglishTexts
    OBVIOUS
  <2> DEFINE t == stored.rendered[r][f]
  <2>2. t \in Seq(Token)
    BY <1>1, <1>2, DeliveredIs DEF Sees
  <2>3. \E i \in DOMAIN t : t[i] \in EnglishTexts
    BY <2>1
  <2> HIDE DEF t
  <2> QED
    BY <2>2, <2>3, <1>3
<1>5. \A r \in FellBack : \E q \in english \cup blank : rows[q].id = rows[r].id
  <2> SUFFICES ASSUME NEW r \in FellBack PROVE \E q \in english \cup blank : rows[q].id = rows[r].id
    OBVIOUS
  <2>1. r \in DOMAIN rows
    BY <1>1
  <2>2. PICK q \in DOMAIN rows : rows[q].id = rows[r].id /\ Delivered(r).texts = English(q).texts
    BY <2>1, <1>1, <1>2, DeliveredIs
  <2>3. CASE q \in blank
    BY <2>2, <2>3
  <2>4. CASE q \notin blank
    <3>1. rows[q].has \subseteq Field /\ rows[q].has # {}
      BY <1>1, <2>4, RowsAre
    <3>2. PICK f \in Field : f \in rows[q].has
      BY <3>1
    <3>3. stored.rendered[r][f] = Own(q, f, "en")
      BY <2>1, <2>2, <1>1, TextsAre
    <3>4. stored.rendered[r][f] = <<Text(q, f, "en")>>
      BY <3>2, <3>3 DEF Own
    <3>5. Text(q, f, "en") \in EnglishTexts
      BY DEF EnglishTexts
    <3>6. \E i \in DOMAIN stored.rendered[r][f] : stored.rendered[r][f][i] \in EnglishTexts
      <4>1. 1 \in DOMAIN <<Text(q, f, "en")>> /\ <<Text(q, f, "en")>>[1] = Text(q, f, "en")
        OBVIOUS
      <4> QED
        BY <4>1, <3>4, <3>5
    <3>7. r \in english
      BY <2>1, <3>6
    <3> QED
      BY <3>7
  <2> QED
    BY <2>3, <2>4
<1>6. stored.error = (stored.fallback # {})
  BY <1>1
<1> HIDE DEF english, blank
<1>7. {rows[r].id : r \in english} \subseteq stored.fallback
  BY <1>1, <1>4
<1>8. stored.fallback \subseteq {rows[r].id : r \in english \cup blank}
  BY <1>1, <1>5
<1> QED
  BY <1>6, <1>7, <1>8 DEF HonestLabels, english, blank

-----------------------------------------------------------------------------
(* The theorems.                                                            *)

(* Types; every chunk fits the cap as it was packed; no row is forgotten;   *)
(* and the clauses stored as English are the ones that show English,        *)
(* whatever Mayura answers and whatever it does to the markers              *)
(* (translate.py: 115-191, 238-321; processor.py: 214-246).                 *)
THEOREM InvHolds == Spec => []Inv
<1>1. IInv => Inv
  <2> SUFFICES ASSUME IInv PROVE Inv
    OBVIOUS
  <2> USE NumbersAre
  <2>1. TypeOK /\ Places /\ Fits /\ Entered
    BY DEF IInv, Base
  <2>2. RequestFits
    <3> SUFFICES ASSUME pc = "chunk" PROVE RequestFits
      BY DEF RequestFits
    <3>1. /\ rows \in Inputs /\ lo \in 1..Len(rows) /\ hi \in lo..Len(rows)
          /\ EncodedLength(lo, hi) <= MaxChars
      BY <2>1 DEF Places, Fits
    <3> QED
      BY <3>1, ChunkSent DEF RequestFits
  <2>3. NothingForgotten
    <3> SUFFICES ASSUME pc = "overview" PROVE DOMAIN out = ids
      BY DEF NothingForgotten
    <3>1. lo - 1 = Len(rows) /\ DOMAIN rows = 1..Len(rows)
      BY <2>1 DEF Places
    <3>2. Behind = DOMAIN rows
      BY <3>1 DEF Behind
    <3> QED
      BY <3>2, <2>1 DEF Entered, ids
  <2> QED
    BY <2>1, <2>2, <2>3, LabelsAreHonest DEF Inv
<1> QED
  BY <1>1, Invariance, PTL

(* A failed call costs at most one row in English, and a busy answer that   *)
(* is followed by a good one costs none (translate.py: 115-191, 501-554).   *)
THEOREM FailuresStayLocalHolds == Spec => []FailuresStayLocal
<1>1. IInv => FailuresStayLocal
  BY DEF IInv, Base
<1> QED
  BY <1>1, Invariance, PTL

(* A row of the stored translation shows the texts of one row of its        *)
(* clause, or nothing, in whatever order Mayura returned the blocks, however *)
(* it cut the answer, and whichever rows, field separators or row markers   *)
(* it lost; only behind a lost row marker do the next row's texts run into  *)
(* the action (translate.py: 389-435).                                      *)
THEOREM OwnTextOnlyHolds == Spec => []OwnTextOnly
<1>1. IInv => OwnTextOnly
  <2> SUFFICES ASSUME IInv, NEW r \in DOMAIN stored.rendered
               PROVE  \E q \in DOMAIN rows :
                        /\ rows[q].id = rows[r].id
                        /\ \A f \in Field :
                             LET own == {<<>>, <<Text(q, f, "en")>>, <<Text(q, f, "xx")>>}
                             IN  \/ stored.rendered[r][f] \in own
                                 \/ /\ "lost_marker" \in Damages /\ f = 3 /\ q < Len(rows)
                                    /\ \E t \in own : stored.rendered[r][f] = t \o Body(q + 1, "xx")
    BY DEF OwnTextOnly
  <2>1. stored.rendered # <<>>
    OBVIOUS
  <2>2. r \in DOMAIN rows /\ rows \in Inputs /\ stored.rendered[r] = Delivered(r).texts
    BY <2>1, StoredIs
  <2>3. Shown
    BY DEF IInv
  <2>4. CASE r \in FellBack
    <3>1. PICK q \in DOMAIN rows : rows[q].id = rows[r].id /\ stored.rendered[r] = English(q).texts
      BY <2>2, <2>3, <2>4, DeliveredIs
    <3>2. \A f \in Field : stored.rendered[r][f] = Own(q, f, "en")
      BY <3>1, <2>2, TextsAre
    <3>3. \A f \in Field : stored.rendered[r][f] \in {<<>>, <<Text(q, f, "en")>>, <<Text(q, f, "xx")>>}
      BY <3>2 DEF Own
    <3> QED
      BY <3>1, <3>3
  <2>5. CASE r \notin FellBack
    <3>1. Sees(rows[r].id, stored.rendered[r])
      BY <2>2, <2>3, <2>5, DeliveredIs
    <3>2. PICK q \in DOMAIN rows : rows[q].id = rows[r].id /\ OwnTexts(q, stored.rendered[r])
      BY <3>1 DEF Sees
    <3> QED
      BY <3>2, Zenon DEF OwnTexts
  <2> QED
    BY <2>4, <2>5
<1> QED
  BY <1>1, Invariance, PTL
=============================================================================
