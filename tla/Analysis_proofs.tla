-------------------------- MODULE Analysis_proofs --------------------------
(***************************************************************************)
(* Proofs about Analysis, for every contract, library, chunk size and      *)
(* number of workers: in whatever order the chunks of a stage start,       *)
(* finish and fail, a ready contract shows every clause once and in its    *)
(* place, and what it shows was checked.                                   *)
(*                                                                         *)
(* The rows of the chunks are joined by FlattenSeq, which is recursive.    *)
(* The facts about it are proved by induction: a set of natural numbers    *)
(* without a least element is empty, because the intervals 1..n are        *)
(* well-founded under strict inclusion.                                    *)
(***************************************************************************)
EXTENDS Analysis, Integers, FiniteSetTheorems, WellFoundedInduction, TLAPS

-----------------------------------------------------------------------------
(* Induction.                                                               *)

(* A set of natural numbers that is not empty has a least element.          *)
LEMMA Least ==
    ASSUME NEW T \in SUBSET Nat, T # {}
    PROVE  \E m \in T : \A k \in T : m <= k
<1> DEFINE up == {1..n : n \in T}
<1>1. up \in SUBSET FiniteSubsetsOf(Nat) /\ up # {}
  <2>1. ASSUME NEW n \in T PROVE 1..n \in FiniteSubsetsOf(Nat)
    BY FS_Interval DEF FiniteSubsetsOf
  <2> QED
    BY <2>1
<1>2. PICK x \in up : \A y \in up : <<y, x>> \notin StrictSubsetOrdering(Nat)
  BY <1>1, FS_StrictSubsetOrderingWellFounded, WFMin
<1>3. PICK m \in T : x = 1..m
  BY <1>2
<1>4. ASSUME NEW k \in T, k < m PROVE FALSE
  <2>1. 1..k \in up /\ <<1..k, x>> \notin StrictSubsetOrdering(Nat)
    BY <1>2
  <2>2. 1..k \in SUBSET Nat /\ 1..m \in SUBSET Nat
    OBVIOUS
  <2>3. 1..k \subseteq 1..m /\ m \in 1..m /\ m \notin 1..k
    BY <1>4
  <2> QED
    BY <2>1, <2>2, <2>3, <1>3 DEF StrictSubsetOrdering
<1> QED
  BY <1>4

(* A set of numbers up to b with 0 in it, closed under successors, has all. *)
LEMMA Induction ==
    ASSUME NEW b \in Nat, NEW P, 0 \in P, \A n \in P : n \in Nat /\ n < b => n + 1 \in P
    PROVE  0..b \subseteq P
<1> DEFINE T == {n \in 0..b : n \notin P}
<1> SUFFICES ASSUME T # {} PROVE FALSE
  OBVIOUS
<1>1. T \in SUBSET Nat
  OBVIOUS
<1>2. PICK m \in T : \A k \in T : m <= k
  BY <1>1, Least
<1>3. m - 1 \in 0..b /\ m - 1 \notin T
  BY <1>2
<1> QED
  BY <1>3

-----------------------------------------------------------------------------
(* Flattening.  Join(s, g): g[i] joins the first i sequences of s.          *)

Join(s, g) == \A i \in DOMAIN g : g[i] = IF i = 1 THEN s[i] ELSE g[i - 1] \o s[i]

(* There is such a g.                                                       *)
LEMMA JoinExists ==
    ASSUME NEW T, NEW s \in Seq(Seq(T))
    PROVE  \E g \in [1..Len(s) -> Seq(T)] : Join(s, g)
<1> DEFINE P == {n \in 0..Len(s) : \E g \in [1..n -> Seq(T)] : Join(s, g)}
<1>1. 0 \in P
  <2> DEFINE e == [i \in 1..0 |-> <<>>]
  <2>1. e \in [1..0 -> Seq(T)] /\ Join(s, e)
    BY DEF Join
  <2>2. 0 \in 0..Len(s)
    OBVIOUS
  <2> QED
    BY <2>1, <2>2
<1>2. ASSUME NEW n \in P, n < Len(s) PROVE n + 1 \in P
  <2>1. PICK g \in [1..n -> Seq(T)] : Join(s, g)
    OBVIOUS
  <2>2. s[n + 1] \in Seq(T) /\ n + 1 \in 0..Len(s)
    BY <1>2
  <2> DEFINE last == IF n = 0 THEN s[1] ELSE g[n] \o s[n + 1]
             h == [i \in 1..(n + 1) |-> IF i = n + 1 THEN last ELSE g[i]]
  <2>3. last \in Seq(T)
    BY <2>1, <2>2
  <2>4. \A i \in 1..(n + 1) : i # n + 1 => i \in 1..n
    OBVIOUS
  <2>5. h \in [1..(n + 1) -> Seq(T)]
    BY <2>1, <2>3, <2>4
  <2>6. ASSUME NEW i \in 1..(n + 1)
        PROVE  h[i] = IF i = 1 THEN s[i] ELSE h[i - 1] \o s[i]
    <3>1. CASE i = n + 1 /\ n = 0
      BY <3>1
    <3>2. CASE i = n + 1 /\ n # 0
      <4>1. h[n + 1] = g[n] \o s[n + 1]
        BY <3>2
      <4>2. i - 1 = n /\ i # 1 /\ n \in 1..(n + 1) /\ n # n + 1
        BY <3>2
      <4>3. h[n] = g[n]
        BY <4>2
      <4> HIDE DEF h
      <4> QED
        BY <3>2, <4>1, <4>2, <4>3
    <3>3. CASE i # n + 1
      <4>1. i \in 1..n /\ h[i] = g[i]
        BY <3>3
      <4>2. i # 1 => h[i - 1] = g[i - 1]
        BY <4>1
      <4> QED
        BY <4>1, <4>2, <2>1 DEF Join
    <3> QED
      BY <3>1, <3>2, <3>3
  <2>7. Join(s, h)
    BY <2>5, <2>6 DEF Join
  <2> QED
    BY <2>2, <2>5, <2>7
<1>3. 0..Len(s) \subseteq P
  <2> HIDE DEF P
  <2> QED
    BY <1>1, <1>2, Induction
<1> QED
  BY <1>3

(* FlattenSeq joins all of them.                                            *)
LEMMA FlattenIsJoin ==
    ASSUME NEW T, NEW s \in Seq(Seq(T)), s # <<>>
    PROVE  \E g \in [1..Len(s) -> Seq(T)] : Join(s, g) /\ FlattenSeq(s) = g[Len(s)]
<1> DEFINE Def(g) == g = [i \in 1..Len(s) |-> IF i = 1 THEN s[i] ELSE g[i - 1] \o s[i]]
           G == CHOOSE g : Def(g)
<1>1. PICK g \in [1..Len(s) -> Seq(T)] : Join(s, g)
  BY JoinExists
<1>2. Def(g)
  BY <1>1 DEF Join
<1>3. Def(G)
  BY <1>2
<1>4. FlattenSeq(s) = G[Len(s)]
  BY Len(s) # 0 DEF FlattenSeq
(* Both satisfy the same recursion, so they are the same function.          *)
<1> DEFINE P == {n \in 0..Len(s) : \A i \in 1..n : G[i] = g[i]}
<1>5. 0 \in P
  <2> HIDE DEF G
  <2> QED
    OBVIOUS
<1>6. ASSUME NEW n \in P, n < Len(s) PROVE n + 1 \in P
  <2>1. n + 1 \in 1..Len(s) /\ (n + 1 # 1 => (n + 1) - 1 = n /\ n \in 1..n)
    BY <1>6
  <2>2. G[n + 1] = IF n + 1 = 1 THEN s[n + 1] ELSE G[(n + 1) - 1] \o s[n + 1]
    <3> HIDE DEF G
    <3> QED
      BY <1>3, <2>1
  <2>3. g[n + 1] = IF n + 1 = 1 THEN s[n + 1] ELSE g[(n + 1) - 1] \o s[n + 1]
    BY <1>2, <2>1
  <2> HIDE DEF G
  <2>4. \A i \in 1..n : G[i] = g[i]
    OBVIOUS
  <2>5. G[n + 1] = g[n + 1]
    BY <2>1, <2>2, <2>3, <2>4
  <2> QED
    BY <2>1, <2>4, <2>5
<1>7. 0..Len(s) \subseteq P
  <2> HIDE DEF P
  <2> QED
    BY <1>5, <1>6, Induction, SMTT(30)
<1> HIDE DEF G
<1>8. \A i \in 1..Len(s) : G[i] = g[i]
  <2>1. Len(s) \in 0..Len(s)
    OBVIOUS
  <2> QED
    BY <1>7, <2>1
<1>9. G = [i \in 1..Len(s) |-> G[i]] /\ g = [i \in 1..Len(s) |-> g[i]]
  BY <1>2, <1>3
<1>10. G = g
  BY <1>8, <1>9
<1> QED
  BY <1>1, <1>4, <1>10

(* Where the elements of a concatenation come from.                         *)
LEMMA ConcatIs ==
    ASSUME NEW T, NEW a \in Seq(T), NEW b \in Seq(T)
    PROVE  /\ Len(a \o b) = Len(a) + Len(b)
           /\ \A i \in DOMAIN (a \o b) :
                 /\ i \in DOMAIN a => (a \o b)[i] = a[i]
                 /\ i \notin DOMAIN a => /\ i - Len(a) \in DOMAIN b
                                        /\ (a \o b)[i] = b[i - Len(a)]
                 /\ i \in Nat /\ Len(a) \in Nat
  OBVIOUS

(* What the flat sequence holds was in one of the parts.                    *)
LEMMA FlattenFrom ==
    ASSUME NEW T, NEW s \in Seq(Seq(T)), s # <<>>
    PROVE  /\ FlattenSeq(s) \in Seq(T)
           /\ \A i \in DOMAIN FlattenSeq(s) :
                 \E k \in DOMAIN s : \E j \in DOMAIN s[k] : FlattenSeq(s)[i] = s[k][j]
<1>1. PICK g \in [1..Len(s) -> Seq(T)] : Join(s, g) /\ FlattenSeq(s) = g[Len(s)]
  BY FlattenIsJoin
<1> DEFINE P == {n \in 0..Len(s) : n # 0 => \A i \in DOMAIN g[n] :
                    \E k \in DOMAIN s : \E j \in DOMAIN s[k] : g[n][i] = s[k][j]}
<1>2. 0 \in P
  OBVIOUS
<1>3. ASSUME NEW n \in P, n < Len(s) PROVE n + 1 \in P
  <2>1. n + 1 \in 1..Len(s) /\ n + 1 \in DOMAIN s /\ s[n + 1] \in Seq(T)
    BY <1>3
  <2>2. g[n + 1] = IF n + 1 = 1 THEN s[n + 1] ELSE g[(n + 1) - 1] \o s[n + 1]
    BY <1>1, <2>1 DEF Join
  <2>3. ASSUME NEW i \in DOMAIN g[n + 1]
        PROVE  \E k \in DOMAIN s : \E j \in DOMAIN s[k] : g[n + 1][i] = s[k][j]
    <3>1. CASE n = 0
      BY <3>1, <2>1, <2>2
    <3>2. CASE n # 0
      <4>1. g[n] \in Seq(T) /\ g[n + 1] = g[n] \o s[n + 1]
        <5>1. n \in 1..Len(s) /\ n + 1 # 1 /\ (n + 1) - 1 = n
          BY <3>2, <1>3
        <5> QED
          BY <5>1, <2>2
      <4>2. CASE i \in DOMAIN g[n]
        BY <4>1, <4>2, <2>1, <3>2
      <4>3. CASE i \notin DOMAIN g[n]
        <5>2. i \in DOMAIN (g[n] \o s[n + 1])
          BY <4>1
        <5>1. i - Len(g[n]) \in DOMAIN s[n + 1] /\ g[n + 1][i] = s[n + 1][i - Len(g[n])]
          <6>1. g[n] \in Seq(T) /\ s[n + 1] \in Seq(T)
            BY <4>1, <2>1
          <6>2. \A a, b : /\ a \in Seq(T) /\ b \in Seq(T) /\ i \in DOMAIN (a \o b) /\ i \notin DOMAIN a
                          => i - Len(a) \in DOMAIN b /\ (a \o b)[i] = b[i - Len(a)]
            BY ONLY ConcatIs
          <6>3. /\ i - Len(g[n]) \in DOMAIN s[n + 1]
                /\ (g[n] \o s[n + 1])[i] = s[n + 1][i - Len(g[n])]
            BY ONLY <6>1, <6>2, <4>3, <5>2, Zenon
          <6> QED
            BY <6>3, <4>1
        <5> QED
          BY <5>1, <2>1
      <4> QED
        BY <4>2, <4>3
    <3> QED
      BY <3>1, <3>2
  <2> QED
    BY <2>1, <2>3
<1>4. 0..Len(s) \subseteq P
  <2> HIDE DEF P
  <2> QED
    BY <1>2, <1>3, Induction
<1>5. Len(s) \in 1..Len(s) /\ Len(s) \in 0..Len(s) /\ Len(s) # 0
  OBVIOUS
<1>6. Len(s) \in P
  BY <1>4, <1>5
<1>7. g[Len(s)] \in Seq(T)
  BY <1>5
<1> QED
  BY <1>1, <1>5, <1>6, <1>7

-----------------------------------------------------------------------------
(* Cutting into chunks.                                                     *)

Count(c, n) == (Len(c) + n - 1) \div n
Upto(c, n, k) == IF k * n < Len(c) THEN k * n ELSE Len(c)
Piece(c, n, k) == SubSeq(c, (k - 1) * n + 1, Upto(c, n, k))

(* The chunks cover the clauses, and none is empty.                         *)
LEMMA CountCovers ==
    ASSUME NEW l \in Nat, NEW n \in Nat \ {0}
    PROVE  LET q == (l + n - 1) \div n
           IN  q \in Nat /\ q * n >= l /\ (q - 1) * n < l /\ (l > 0 => q > 0)
<1> DEFINE x == l + n - 1
           q == x \div n
<1>1. x \in Nat
  OBVIOUS
<1>2. q \in Nat /\ q * n <= x /\ x < (q + 1) * n
  <2> HIDE DEF x
  <2> QED
    BY <1>1
<1> HIDE DEF q
<1>3. (q + 1) * n = q * n + n /\ (q - 1) * n = q * n - n /\ q * n \in Int /\ (q = 0 => q * n = 0)
  BY <1>2
<1>4. q * n >= l /\ (q - 1) * n < l /\ (l > 0 => q > 0)
  BY <1>2, <1>3
<1> QED
  BY <1>2, <1>4 DEF q

LEMMA PieceIs ==
    ASSUME NEW T, NEW c \in Seq(T), NEW n \in Nat \ {0}, NEW k \in 1..Count(c, n)
    PROVE  /\ Piece(c, n, k) \in Seq(T)
           /\ Upto(c, n, k - 1) = (k - 1) * n
           /\ Len(Piece(c, n, k)) = Upto(c, n, k) - Upto(c, n, k - 1)
           /\ Upto(c, n, k) \in Nat /\ Upto(c, n, k - 1) \in Nat
           /\ \A j \in DOMAIN Piece(c, n, k) :
                 /\ (k - 1) * n + j \in DOMAIN c
                 /\ Piece(c, n, k)[j] = c[(k - 1) * n + j]
<1>1. Len(c) \in Nat /\ Count(c, n) \in Nat /\ (Count(c, n) - 1) * n < Len(c)
  BY CountCovers DEF Count
<1>2. (k - 1) * n \in Nat /\ (k - 1) * n < Len(c) /\ k * n = (k - 1) * n + n
  BY <1>1
<1> DEFINE u == Upto(c, n, k)
           a == (k - 1) * n
<1>3. u \in Nat /\ u <= Len(c) /\ a < u /\ Upto(c, n, k - 1) = a
  BY <1>1, <1>2 DEF Upto
<1> HIDE DEF u, a
<1>4. Piece(c, n, k) = SubSeq(c, a + 1, u)
  BY DEF Piece, a, u
<1>5. a \in Nat
  BY <1>2 DEF a
<1>6. /\ SubSeq(c, a + 1, u) \in Seq(T)
      /\ Len(SubSeq(c, a + 1, u)) = u - a
      /\ \A j \in 1..(u - a) : a + j \in DOMAIN c /\ SubSeq(c, a + 1, u)[j] = c[a + j]
  BY <1>3, <1>5
<1>7. /\ Piece(c, n, k) \in Seq(T) /\ DOMAIN Piece(c, n, k) = 1..(u - a)
      /\ Len(Piece(c, n, k)) = u - a
      /\ \A j \in 1..(u - a) : a + j \in DOMAIN c /\ Piece(c, n, k)[j] = c[a + j]
  BY <1>3, <1>4, <1>5, <1>6
<1>8. Upto(c, n, k) = u /\ (k - 1) * n = a
  BY DEF a, u
<1> QED
  BY <1>3, <1>5, <1>7, <1>8

(* Whatever order the chunks finished in, their rows taken by chunk number  *)
(* and joined are the clauses from the first to the last.                   *)
THEOREM InOrder ==
    ASSUME NEW c \in Seq(STRING), c # <<>>, NEW n \in Nat \ {0},
           NEW s \in Seq(Seq(Row)), Len(s) = Count(c, n),
           \A k \in DOMAIN s :
              /\ Len(s[k]) = Len(Piece(c, n, k))
              /\ \A j \in DOMAIN s[k] : s[k][j].clause = Piece(c, n, k)[j]
    PROVE  /\ s # <<>> /\ Len(FlattenSeq(s)) = Len(c)
           /\ \A i \in DOMAIN FlattenSeq(s) : FlattenSeq(s)[i].clause = c[i]
<1>1. Len(c) > 0 /\ Len(s) \in Nat \ {0} /\ Len(s) * n >= Len(c)
  BY CountCovers DEF Count
<1>2. s # <<>>
  BY <1>1
<1>3. PICK g \in [1..Len(s) -> Seq(Row)] : Join(s, g) /\ FlattenSeq(s) = g[Len(s)]
  BY <1>2, FlattenIsJoin
<1> DEFINE Done(k) == /\ Len(g[k]) = Upto(c, n, k)
                      /\ \A i \in DOMAIN g[k] : g[k][i].clause = c[i]
           P == {k \in 0..Len(s) : k # 0 => Done(k)}
<1>4. 0 \in P
  BY <1>1
<1>5. ASSUME NEW m \in P, m < Len(s) PROVE m + 1 \in P
  <2> DEFINE k == m + 1
             b == s[k]
  <2>1. k \in 1..Len(s) /\ k \in DOMAIN s /\ k - 1 = m /\ m \in Nat /\ b \in Seq(Row)
        /\ (m # 0 => m \in 1..Len(s))
    BY <1>5
  <2>2. /\ Upto(c, n, k) \in Nat /\ Upto(c, n, m) \in Nat /\ Upto(c, n, m) = m * n
        /\ Len(b) = Upto(c, n, k) - Upto(c, n, m)
        /\ \A j \in DOMAIN b : b[j].clause = c[m * n + j]
    <3> HIDE DEF k
    <3>1. k \in 1..Count(c, n)
      BY <2>1
    <3>2. Len(b) = Len(Piece(c, n, k)) /\ \A j \in DOMAIN b : b[j].clause = Piece(c, n, k)[j]
      BY <2>1
    <3>3. DOMAIN b = DOMAIN Piece(c, n, k)
      BY <2>1, <3>1, <3>2, PieceIs
    <3>4. /\ Upto(c, n, k - 1) = (k - 1) * n
          /\ Len(Piece(c, n, k)) = Upto(c, n, k) - Upto(c, n, k - 1)
          /\ Upto(c, n, k) \in Nat /\ Upto(c, n, k - 1) \in Nat
          /\ \A j \in DOMAIN Piece(c, n, k) : Piece(c, n, k)[j] = c[(k - 1) * n + j]
      BY <3>1, PieceIs, SMTT(30)
    <3> HIDE DEF b
    <3>5. /\ Upto(c, n, m) = m * n
          /\ Len(Piece(c, n, k)) = Upto(c, n, k) - Upto(c, n, m)
          /\ Upto(c, n, m) \in Nat
          /\ \A j \in DOMAIN Piece(c, n, k) : Piece(c, n, k)[j] = c[m * n + j]
      BY <2>1, <3>4
    <3> QED
      BY <3>2, <3>3, <3>4, <3>5
  <2>3. g[k] = IF k = 1 THEN b ELSE g[m] \o b
    BY <1>3, <2>1 DEF Join
  <2>4. Done(k)
    <3>1. CASE m = 0
      <4>1. m * n = 0 /\ g[k] = b
        BY <3>1, <2>3
      <4> QED
        BY <2>1, <2>2, <4>1
    <3>2. CASE m # 0
      <4> DEFINE a == g[m]
      <4>0. Done(m)
        BY <3>2
      <4>5. k # 1
        BY <3>2, <2>1
      <4> HIDE DEF b, k, P
      <4>1. /\ a \in Seq(Row) /\ b \in Seq(Row) /\ g[k] = a \o b
            /\ Len(a) = m * n /\ \A i \in DOMAIN a : a[i].clause = c[i]
        BY <2>1, <2>2, <2>3, <3>2, <4>0, <4>5
      <4> HIDE DEF a
      <4>2. Len(a \o b) = Len(a) + Len(b)
        <5>1. a \in Seq(Row) /\ b \in Seq(Row)
          BY <4>1
        <5> QED
          BY ONLY <5>1, ConcatIs
      <4>3. Len(g[k]) = Upto(c, n, k)
        BY <2>2, <4>1, <4>2
      <4>4. ASSUME NEW i \in DOMAIN (a \o b) PROVE (a \o b)[i].clause = c[i]
        <5>1. CASE i \in DOMAIN a
          <6>1. (a \o b)[i] = a[i]
            BY <4>1, <5>1
          <6> QED
            BY <4>1, <5>1, <6>1
        <5>2. CASE i \notin DOMAIN a
          <6>1. i - Len(a) \in DOMAIN b /\ (a \o b)[i] = b[i - Len(a)] /\ i \in Nat /\ Len(a) \in Nat
            BY <4>1, <5>2, ConcatIs, SMTT(30)
          <6>2. m * n + (i - Len(a)) = i
            BY <4>1, <6>1
          <6> QED
            BY <2>2, <6>1, <6>2
        <5> QED
          BY <5>1, <5>2
      <4> QED
        BY <4>1, <4>3, <4>4
    <3> QED
      BY <3>1, <3>2
  <2> QED
    BY <2>1, <2>4
<1>6. 0..Len(s) \subseteq P
  <2> HIDE DEF P
  <2> QED
    BY <1>1, <1>4, <1>5, Induction
<1>7. Len(s) \in 0..Len(s) /\ Len(s) # 0
  BY <1>1
<1>8. Done(Len(s))
  BY <1>6, <1>7
<1>9. Upto(c, n, Len(s)) = Len(c)
  <2>1. Len(s) * n \in Nat /\ Len(c) \in Nat
    BY <1>1
  <2> QED
    BY <1>1, <2>1 DEF Upto
<1> QED
  BY <1>2, <1>3, <1>8, <1>9

-----------------------------------------------------------------------------
(* The inductive invariant.                                                 *)

Early == pc \in {"extract", "extract_smart"} =>
            /\ annotations = <<>> /\ classes = <<>> /\ rendered = <<>>
            /\ next = 1 /\ running = {} /\ finished = <<>> /\ lost = {}
(* What is read has clauses, each once.                                     *)
Distinct ==
    /\ \A i, j \in DOMAIN Clauses : Clauses[i] = Clauses[j] => i = j
    /\ pc \in {"annotate", "classify", "render", "ready"} => Clauses # <<>>
(* The pool: chunks are under way or finished, and finish once.             *)
Pool ==
    /\ running \subseteq 1..(next - 1)
    /\ finished \in Seq({finished[i] : i \in DOMAIN finished})
    /\ \A i, j \in DOMAIN finished : finished[i].chunk = finished[j].chunk => i = j
    /\ lost \subseteq {finished[i].chunk : i \in DOMAIN finished}
(* What a finished chunk holds, by stage.                                   *)
RowsOf(k, rows) ==
    /\ rows \in Seq(Row) /\ Len(rows) = Len(Chunk(k))
    /\ \A j \in DOMAIN Chunk(k) : rows[j] \in Renderings(Chunk(k)[j])
Annotated ==
    pc = "annotate" => \A i \in DOMAIN finished :
        \/ finished[i].rows = <<>>
        \/ finished[i].rows \in [ToSet(Chunk(finished[i].chunk)) -> Annotation]
Rendered ==
    pc = "render" => \A i \in DOMAIN finished :
        IF finished[i].chunk \in lost THEN finished[i].rows = <<>>
        ELSE RowsOf(finished[i].chunk, finished[i].rows)
Cited == \A c \in DOMAIN annotations : Applies(annotations[c].cites)
Classified == pc \in {"render", "ready"} => classes \in [ids -> Rules \cup {NoRule}]
(* What is shown, of a failed reading too: clauses of the contract, each as *)
(* it was rendered or filled in.                                            *)
Shown ==
    \A i \in DOMAIN rendered :
        LET c == rendered[i].clause
        IN  /\ classes \in [ids -> Rules \cup {NoRule}] /\ c \in ids
            /\ rendered[i] \in Renderings(c) \cup {Missing(c)}
            /\ pc = "ready" => rendered[i] \in Renderings(c)
Blank == pc \in {"annotate", "classify", "render"} => rendered = <<>>

IInv ==
    /\ TypeOK /\ Early /\ Distinct /\ Pool /\ Annotated /\ Rendered /\ Cited
    /\ Classified /\ Blank /\ Shown /\ ReadyInOrder

-----------------------------------------------------------------------------
(* What the state's parts are.                                              *)

LEMMA DocIs ==
    ASSUME TypeOK
    PROVE  /\ doc.clauses \in Seq(STRING) /\ doc.clauses # <<>> /\ doc.names \subseteq States
           /\ \A i, j \in DOMAIN doc.clauses : doc.clauses[i] = doc.clauses[j] => i = j
<1> DEFINE d == [clauses |-> doc.clauses, names |-> doc.names]
<1>1. d \in Docs
  BY DEF TypeOK
<1>2. d.clauses = doc.clauses /\ d.names = doc.names
  OBVIOUS
<1> HIDE DEF d
<1>3. d \in Doc /\ d.clauses # <<>> /\ \A i, j \in DOMAIN d.clauses : d.clauses[i] = d.clauses[j] => i = j
  BY <1>1, DataAssumption
<1>4. d.clauses \in Seq(STRING) /\ d.names \subseteq States
  BY <1>3 DEF Doc
<1> QED
  BY <1>2, <1>3, <1>4

LEMMA ChunksAre ==
    ASSUME TypeOK
    PROVE  /\ ChunkSize \in Nat \ {0} /\ Clauses \in Seq(STRING) /\ ids \subseteq STRING
           /\ ids = {Clauses[i] : i \in DOMAIN Clauses}
           /\ ChunkCount = Count(Clauses, ChunkSize) /\ ChunkCount \in Nat
           /\ \A k \in 1..ChunkCount :
                 /\ Chunk(k) = Piece(Clauses, ChunkSize, k) /\ Chunk(k) \in Seq(STRING)
                 /\ DOMAIN Chunk(k) = 1..Len(Chunk(k))
                 /\ ToSet(Chunk(k)) \subseteq ids
                 /\ \A j \in DOMAIN Chunk(k) : Chunk(k)[j] \in ids /\ Chunk(k)[j] \in ToSet(Chunk(k))
<1>1. ChunkSize \in Nat \ {0}
  BY DataAssumption DEF TypeOK, ChunkSize
<1>2. Clauses \in Seq(STRING)
  BY DEF TypeOK, Extraction, Clauses
<1>3. ids = {Clauses[i] : i \in DOMAIN Clauses} /\ ids \subseteq STRING
  BY <1>2 DEF ids, ToSet
<1>4. ChunkCount = Count(Clauses, ChunkSize)
  BY DEF ChunkCount, Count
<1>5. ChunkCount \in Nat
  BY <1>1, <1>2, <1>4, CountCovers DEF Count
<1>6. ASSUME NEW k \in 1..ChunkCount
      PROVE  /\ Chunk(k) = Piece(Clauses, ChunkSize, k) /\ Chunk(k) \in Seq(STRING)
             /\ DOMAIN Chunk(k) = 1..Len(Chunk(k))
             /\ ToSet(Chunk(k)) \subseteq ids
             /\ \A j \in DOMAIN Chunk(k) : Chunk(k)[j] \in ids /\ Chunk(k)[j] \in ToSet(Chunk(k))
  <2>1. Chunk(k) = Piece(Clauses, ChunkSize, k)
    BY DEF Chunk, Piece, Upto
  <2>2. /\ Piece(Clauses, ChunkSize, k) \in Seq(STRING)
        /\ \A j \in DOMAIN Piece(Clauses, ChunkSize, k) :
              /\ (k - 1) * ChunkSize + j \in DOMAIN Clauses
              /\ Piece(Clauses, ChunkSize, k)[j] = Clauses[(k - 1) * ChunkSize + j]
    BY <1>1, <1>2, <1>4, PieceIs
  <2>3. \A j \in DOMAIN Chunk(k) : Chunk(k)[j] \in ids
    BY <2>1, <2>2, <1>3
  <2> QED
    BY <2>1, <2>2, <2>3 DEF ToSet
<1> QED
  BY <1>1, <1>2, <1>3, <1>4, <1>5, <1>6

LEMMA RuleIs ==
    ASSUME TypeOK, classes \in [ids -> Rules \cup {NoRule}], NEW c \in ids
    PROVE  /\ RuleOf(c) \in Rules \cup {NoRule}
           /\ RuleOf(c) # NoRule => /\ RuleOf(c) = classes[c] /\ RuleOf(c) \in Rule
                                    /\ Applies(RuleOf(c).cites)
  BY DataAssumption DEF RuleOf

(* What a rendered row owes to its clause.                                  *)
LEMMA RenderingIs ==
    ASSUME TypeOK, classes \in [ids -> Rules \cup {NoRule}], NEW c \in ids, NEW r \in Renderings(c)
    PROVE  /\ r \in Row /\ r.clause = c /\ r.source # "missing"
           /\ r.source = "library-rule" => RuleOf(c) # NoRule
           /\ AnnotationOf(c).risk = "red" /\ ~r.action =>
                 r.source = "fallback" /\ RuleOf(c) # NoRule /\ ~RuleOf(c).fallbackActs
<1>1. PICK a \in Candidates, b \in Candidates : r = Rendering(a, b, c)
  BY DEF Renderings
<1>2. a \in Candidate /\ b \in Candidate /\ c \in STRING
  BY DataAssumption, ChunksAre
<1>3. CASE r = SafeFallback(c)
  <2>1. r.action = (RuleOf(c) # NoRule /\ RuleOf(c).hasFallback => RuleOf(c).fallbackActs)
        /\ r.clause = c /\ r.source = "fallback" /\ r.text = TRUE
        /\ r = [clause |-> c, source |-> "fallback", text |-> TRUE, action |-> r.action]
    BY <1>3 DEF SafeFallback
  <2>2. r.action \in BOOLEAN
    BY <2>1
  <2>3. r \in Row
    BY <2>1, <2>2, <1>2 DEF Row
  <2> QED
    BY <2>1, <2>3
<1>4. ASSUME NEW x \in Candidate, Valid(x, c), r = Accepted(x, c)
      PROVE  /\ r \in Row /\ r.clause = c /\ r.source # "missing"
             /\ r.source = "library-rule" => RuleOf(c) # NoRule
             /\ AnnotationOf(c).risk = "red" => r.action
  <2>1. x.text \in BOOLEAN /\ x.action \in BOOLEAN
    BY DEF Candidate
  <2>2. /\ r.clause = c /\ r.action = x.action /\ r \in Row
        /\ r.source = IF RuleOf(c) # NoRule THEN "library-rule" ELSE "novel-llm"
    BY <1>2, <1>4, <2>1 DEF Accepted, Row
  <2> QED
    BY <1>4, <2>2 DEF Valid
<1> QED
  BY <1>1, <1>2, <1>3, <1>4 DEF Rendering

LEMMA MissingIs ==
    ASSUME NEW c \in STRING
    PROVE  Missing(c) \in Row /\ Missing(c).clause = c /\ Missing(c).source = "missing"
  BY DEF Missing, Row

-----------------------------------------------------------------------------
(* What a step that does not read or classify leaves alone.                 *)

LEMMA SameContract ==
    ASSUME UNCHANGED <<doc, extracted>>
    PROVE  /\ Clauses' = Clauses /\ ids' = ids /\ ChunkCount' = ChunkCount
           /\ \A k : Chunk(k)' = Chunk(k)
  BY DEF Clauses, ids, ChunkSize, ChunkCount, Chunk

LEMMA SameRenderings ==
    ASSUME UNCHANGED <<doc, extracted, annotations, classes>>
    PROVE  /\ \A c : Renderings(c)' = Renderings(c)
           /\ \A c : RuleOf(c)' = RuleOf(c) /\ AnnotationOf(c)' = AnnotationOf(c)
  BY DEF Renderings, Rendering, Valid, Accepted, SafeFallback, RuleOf, AnnotationOf, Applies, Required

LEMMA CitedStays ==
    ASSUME Cited, UNCHANGED <<doc, annotations>>
    PROVE  Cited'
  BY DEF Cited, Applies, Required

(* Rows already shown stay what they are.                                   *)
LEMMA ShownStays ==
    ASSUME Shown, UNCHANGED <<doc, extracted, annotations, classes, rendered>>, pc' # "ready" \/ pc = "ready"
    PROVE  Shown'
<1>1. ids' = ids
  BY SameContract
<1>2. \A c : Renderings(c)' = Renderings(c)
  BY SameRenderings
<1>3. \A c : Missing(c)' = Missing(c)
  BY DEF Missing
<1> QED
  BY <1>1, <1>2, <1>3 DEF Shown

-----------------------------------------------------------------------------
(* The start, and Stage 1.                                                  *)

LEMMA InitIInv == Init => IInv
<1> SUFFICES ASSUME Init PROVE IInv
  OBVIOUS
<1>1. PICK d \in Docs, n \in ChunkSizes : doc = [clauses |-> d.clauses, names |-> d.names, chunk |-> n]
  BY DEF Init
<1>2. d \in Doc
  BY DataAssumption
<1>3. d = [clauses |-> d.clauses, names |-> d.names]
  BY <1>2 DEF Doc
<1>4. /\ doc.clauses = d.clauses /\ doc.names = d.names /\ doc.chunk = n
      /\ n \in Nat \ {0} /\ Workers \in Nat
  BY <1>1, DataAssumption
<1>5. /\ pc = "extract" /\ extracted = Nothing /\ annotations = <<>> /\ classes = <<>>
      /\ rendered = <<>> /\ next = 1 /\ running = {} /\ finished = <<>> /\ lost = {}
  BY DEF Init
<1>6. Clauses = <<>> /\ Nothing \in Extraction /\ ids = {}
  BY <1>5 DEF Clauses, Nothing, Extraction, ids, ToSet
<1>7. ChunkCount \in Nat
  BY <1>4, <1>6, CountCovers DEF ChunkCount, ChunkSize
<1>8. Cardinality(running) = 0
  BY <1>5, FS_EmptySet
<1>9. {finished[i].chunk : i \in DOMAIN finished} = {} /\ 1..(next - 1) = {}
  BY <1>5
<1>10. TypeOK
  BY <1>1, <1>3, <1>4, <1>5, <1>6, <1>7, <1>8, <1>9 DEF TypeOK
<1> QED
  BY <1>5, <1>6, <1>9, <1>10
     DEF IInv, Early, Distinct, Pool, Annotated, Rendered, Cited, Classified, Shown, Blank, ReadyInOrder

(* What Stage 1 may answer.                                                 *)
LEMMA ExtractionIs ==
    ASSUME TypeOK, NEW e \in Extractions
    PROVE  /\ e \in Extraction /\ ToSet(e.clauses) \subseteq ToSet(doc.clauses)
           /\ \A i, j \in DOMAIN e.clauses : e.clauses[i] = e.clauses[j] => i = j
<1>1. /\ doc.clauses \in Seq(STRING)
      /\ \A i, j \in DOMAIN doc.clauses : doc.clauses[i] = doc.clauses[j] => i = j
  BY DocIs
<1>2. CASE e.clauses = <<>> /\ e \in {Nothing, [Nothing EXCEPT !.error = FALSE]}
  <2>1. e = Nothing \/ e = [Nothing EXCEPT !.error = FALSE]
    BY <1>2
  <2>2. <<>> \in Seq(STRING)
    OBVIOUS
  <2>3. Nothing \in Extraction
    BY <2>2 DEF Nothing, Extraction
  <2>5. [Nothing EXCEPT !.error = FALSE] \in Extraction
    BY <2>3 DEF Extraction
  <2>6. DOMAIN e.clauses = {} /\ ToSet(e.clauses) = {}
    BY <1>2 DEF ToSet
  <2> QED
    BY <2>1, <2>3, <2>5, <2>6
<1>3. CASE \E s \in BOOLEAN : e = [clauses |-> doc.clauses, sure |-> s, error |-> FALSE, cut |-> FALSE]
  BY <1>1, <1>3 DEF Extraction
<1>4. ASSUME NEW n \in 1..(Len(doc.clauses) - 1),
             e = [clauses |-> SubSeq(doc.clauses, 1, n), sure |-> TRUE, error |-> FALSE, cut |-> TRUE]
      PROVE  /\ e \in Extraction /\ ToSet(e.clauses) \subseteq ToSet(doc.clauses)
             /\ \A i, j \in DOMAIN e.clauses : e.clauses[i] = e.clauses[j] => i = j
  <2> DEFINE c == SubSeq(doc.clauses, 1, n)
  <2>1. c \in Seq(STRING) /\ \A i \in DOMAIN c : i \in DOMAIN doc.clauses /\ c[i] = doc.clauses[i]
    BY <1>1
  <2>2. e.clauses = c
    BY <1>4
  <2> HIDE DEF c
  <2>3. e = [clauses |-> c, sure |-> TRUE, error |-> FALSE, cut |-> TRUE]
    BY <1>4 DEF c
  <2> QED
    BY <1>1, <2>1, <2>2, <2>3 DEF Extraction, ToSet
<1>5. \/ e \in {Nothing, [Nothing EXCEPT !.error = FALSE]}
      \/ \E s \in BOOLEAN : e = [clauses |-> doc.clauses, sure |-> s, error |-> FALSE, cut |-> FALSE]
      \/ \E n \in 1..(Len(doc.clauses) - 1) :
            e = [clauses |-> SubSeq(doc.clauses, 1, n), sure |-> TRUE, error |-> FALSE, cut |-> TRUE]
  BY DEF Extractions
<1>6. e \in {Nothing, [Nothing EXCEPT !.error = FALSE]} => e.clauses = <<>>
  BY DEF Nothing
<1> QED
  BY <1>2, <1>3, <1>4, <1>5, <1>6

(* An empty pool is a pool.                                                 *)
LEMMA EmptyPoolIs ==
    ASSUME EmptyPool, ChunkCount' \in Nat
    PROVE  /\ next' \in 1..(ChunkCount' + 1) /\ lost' \subseteq 1..(next' - 1)
           /\ Cardinality(running') <= Workers
           /\ {finished'[i].chunk : i \in DOMAIN finished'} = (1..(next' - 1)) \ running'
           /\ Len(finished') + Cardinality(running') = next' - 1
           /\ Pool'
<1>1. Cardinality({}) = 0 /\ Workers \in Nat
  BY FS_EmptySet, DataAssumption
<1>2. next' = 1 /\ running' = {} /\ finished' = <<>> /\ lost' = {}
  BY DEF EmptyPool
<1>3. Len(finished') = 0 /\ DOMAIN finished' = {} /\ 1..(next' - 1) = {} /\ finished' \in Seq({})
  BY <1>2
<1>4. {finished'[i].chunk : i \in DOMAIN finished'} = {} /\ {finished'[i] : i \in DOMAIN finished'} = {}
  BY <1>3
<1>5. Pool'
  BY <1>2, <1>3, <1>4 DEF Pool
<1>6. Cardinality(running') = 0 /\ (1..(next' - 1)) \ running' = {}
  BY <1>1, <1>2, <1>3
<1>7. \A n \in Nat : 1 \in 1..(n + 1)
  OBVIOUS
<1>8. next' \in 1..(ChunkCount' + 1) /\ lost' \subseteq 1..(next' - 1)
  BY <1>2, <1>7
<1>9. Len(finished') + Cardinality(running') = next' - 1
  BY <1>2, <1>3, <1>6
<1>10. Cardinality(running') <= Workers
  BY <1>1, <1>6
<1> QED
  BY <1>4, <1>5, <1>6, <1>8, <1>9, <1>10

LEMMA FoundStep ==
    ASSUME IInv, pc \in {"extract", "extract_smart"}, NEW e \in Extractions, Found(e)
    PROVE  IInv'
<1>1. /\ extracted' = e /\ EmptyPool /\ UNCHANGED <<doc, annotations, classes, rendered>>
      /\ pc' = IF e.error \/ e.clauses = <<>> THEN "failed" ELSE "annotate"
  BY DEF Found
<1>2. TypeOK /\ annotations = <<>> /\ classes = <<>> /\ rendered = <<>>
  BY DEF IInv, Early
<1>3. /\ e \in Extraction /\ ToSet(e.clauses) \subseteq ToSet(doc.clauses)
      /\ \A i, j \in DOMAIN e.clauses : e.clauses[i] = e.clauses[j] => i = j
  BY <1>2, ExtractionIs
<1>4. Clauses' = e.clauses /\ ids' = ToSet(e.clauses) /\ Clauses' \in Seq(STRING)
  BY <1>1, <1>3 DEF Clauses, ids, Extraction
<1>5. ChunkCount' \in Nat
  <2>1. ChunkCount' = (Len(Clauses') + doc.chunk - 1) \div doc.chunk
    BY <1>1 DEF ChunkCount, ChunkSize
  <2>2. Len(Clauses') \in Nat /\ doc.chunk \in Nat \ {0}
    BY <1>2, <1>4, ChunksAre DEF ChunkSize
  <2> QED
    BY <2>1, <2>2, CountCovers
<1>6. TypeOK'
  BY <1>1, <1>2, <1>3, <1>4, <1>5, EmptyPoolIs DEF TypeOK
<1>7. Pool'
  BY <1>1, <1>5, EmptyPoolIs
<1>8. Distinct'
  BY <1>1, <1>3, <1>4 DEF Distinct
<1>9. finished' = <<>> /\ annotations' = <<>> /\ rendered' = <<>> /\ pc' \in {"failed", "annotate"}
  BY <1>1, <1>2 DEF EmptyPool
<1> QED
  BY <1>6, <1>7, <1>8, <1>9
     DEF IInv, Early, Annotated, Rendered, Cited, Classified, Shown, Blank, ReadyInOrder

(* A step that moves on, or ends in failure, and changes nothing else.      *)
LEMMA MoveStep ==
    ASSUME IInv, UNCHANGED <<doc, extracted, annotations, classes, pool, rendered>>,
           \/ pc' = pc \/ pc' = "failed"
           \/ pc = "extract" /\ pc' = "extract_smart"
    PROVE  IInv'
<1>1. Clauses' = Clauses /\ ids' = ids /\ ChunkCount' = ChunkCount /\ \A k : Chunk(k)' = Chunk(k)
  BY SameContract
<1>2. \A c : Renderings(c)' = Renderings(c)
  BY SameRenderings
<1>3. TypeOK'
  BY <1>1 DEF IInv, TypeOK, pool
<1>4. Distinct' /\ Pool' /\ Early'
  BY <1>1 DEF IInv, Distinct, Pool, Early, pool
<1>5. Annotated' /\ Rendered'
  BY <1>1, <1>2 DEF IInv, Annotated, Rendered, RowsOf, pool
<1>6. Shown'
  BY ShownStays DEF IInv
<1>7. Cited' /\ Classified' /\ Blank' /\ ReadyInOrder'
  BY <1>1, CitedStays DEF IInv, Classified, Blank, ReadyInOrder, Early, Distinct, TypeOK
<1> QED
  BY <1>3, <1>4, <1>5, <1>6, <1>7 DEF IInv

-----------------------------------------------------------------------------
(* The pool.                                                                *)

LEMMA RunningIs ==
    ASSUME TypeOK, Pool
    PROVE  /\ IsFiniteSet(running) /\ Cardinality(running) \in Nat
           /\ next \in Nat \ {0} /\ Workers \in Nat
<1>1. next \in Nat \ {0}
  BY ChunksAre DEF TypeOK
<1>2. IsFiniteSet(1..(next - 1))
  BY <1>1, FS_Interval
<1>3. running \in SUBSET (1..(next - 1))
  BY DEF Pool
<1> QED
  BY <1>1, <1>2, <1>3, FS_Subset, FS_CardinalityType, DataAssumption

LEMMA StartStep ==
    ASSUME IInv, StartChunk
    PROVE  IInv'
<1>1. /\ pc \in {"annotate", "render"} /\ next <= ChunkCount /\ Cardinality(running) < Workers
      /\ running' = running \cup {next} /\ next' = next + 1
      /\ UNCHANGED <<doc, pc, extracted, annotations, classes, finished, lost, rendered>>
  BY DEF StartChunk
<1>2. Clauses' = Clauses /\ ids' = ids /\ ChunkCount' = ChunkCount /\ \A k : Chunk(k)' = Chunk(k)
  BY <1>1, SameContract
<1>3. \A c : Renderings(c)' = Renderings(c)
  BY <1>1, SameRenderings
<1>4. /\ IsFiniteSet(running) /\ Cardinality(running) \in Nat
      /\ next \in Nat \ {0} /\ Workers \in Nat /\ ChunkCount \in Nat
  BY RunningIs, ChunksAre DEF IInv
<1>5. next \notin running /\ running \subseteq 1..(next - 1)
  BY <1>4 DEF IInv, Pool
<1>6. Cardinality(running') = Cardinality(running) + 1
  BY <1>1, <1>4, <1>5, FS_AddElement
<1>7. TypeOK'
  <2>1. next' \in 1..(ChunkCount' + 1) /\ Cardinality(running') <= Workers
    BY <1>1, <1>2, <1>4, <1>6
  <2>2. lost' \subseteq 1..(next' - 1)
    BY <1>1, <1>4 DEF IInv, TypeOK
  <2>3. (1..(next' - 1)) \ running' = (1..(next - 1)) \ running
    BY <1>1, <1>4, <1>5
  <2>4. {finished'[i].chunk : i \in DOMAIN finished'} = (1..(next' - 1)) \ running'
    BY <1>1, <2>3 DEF IInv, TypeOK
  <2>5. Len(finished') + Cardinality(running') = next' - 1
    <3>1. Len(finished) + Cardinality(running) = next - 1 /\ Len(finished') = Len(finished)
      BY <1>1 DEF IInv, TypeOK
    <3>2. Len(finished) \in Nat
      BY DEF IInv, Pool
    <3> QED
      BY <1>1, <1>4, <1>6, <3>1, <3>2
  <2> QED
    BY <1>1, <1>2, <2>1, <2>2, <2>4, <2>5 DEF IInv, TypeOK
<1>8. Pool'
  <2>1. running' \subseteq 1..(next' - 1)
    BY <1>1, <1>4, <1>5
  <2> QED
    BY <1>1, <2>1 DEF IInv, Pool
<1>9. Annotated' /\ Rendered'
  BY <1>1, <1>2, <1>3 DEF IInv, Annotated, Rendered, RowsOf
<1>10. Shown'
  BY <1>1, ShownStays DEF IInv
<1>11. Early' /\ Distinct' /\ Cited' /\ Classified' /\ Blank' /\ ReadyInOrder'
  BY <1>1, <1>2, CitedStays DEF IInv, Early, Distinct, Classified, Blank, ReadyInOrder
<1> QED
  BY <1>7, <1>8, <1>9, <1>10, <1>11 DEF IInv

(* The bookkeeping of a chunk that finishes, with rows or without.          *)
LEMMA FinishIs ==
    ASSUME IInv, NEW k \in running, NEW rows, Finish(k, rows),
           lost' = lost \/ lost' = lost \cup {k}
    PROVE  /\ TypeOK' /\ Pool' /\ k \in 1..ChunkCount
           /\ k \notin {finished[i].chunk : i \in DOMAIN finished}
           /\ DOMAIN finished' = 1..(Len(finished) + 1) /\ DOMAIN finished = 1..Len(finished)
           /\ Len(finished) \in Nat
           /\ \A i \in DOMAIN finished : finished'[i] = finished[i]
           /\ finished'[Len(finished) + 1] = [chunk |-> k, rows |-> rows]
<1>1. /\ running' = running \ {k}
      /\ finished' = Append(finished, [chunk |-> k, rows |-> rows])
      /\ UNCHANGED <<doc, pc, extracted, annotations, classes, next, rendered>>
  BY DEF Finish
<1>2. Clauses' = Clauses /\ ids' = ids /\ ChunkCount' = ChunkCount
  BY <1>1, SameContract
<1>3. /\ IsFiniteSet(running) /\ Cardinality(running) \in Nat
      /\ next \in Nat \ {0} /\ Workers \in Nat /\ ChunkCount \in Nat
  BY RunningIs, ChunksAre DEF IInv
<1>4. Cardinality(running') = Cardinality(running) - 1
  BY <1>1, <1>3, FS_RemoveElement
<1> DEFINE S == {finished[i] : i \in DOMAIN finished}
           f == [chunk |-> k, rows |-> rows]
<1>5. finished \in Seq(S)
  BY DEF IInv, Pool
<1> HIDE DEF f
<1>6. /\ finished \in Seq(S \cup {f})
      /\ finished' = Append(finished, f)
  BY <1>1, <1>5 DEF f
<1>7. /\ Len(finished) \in Nat /\ Len(finished') = Len(finished) + 1
      /\ DOMAIN finished' = 1..(Len(finished) + 1) /\ DOMAIN finished = 1..Len(finished)
      /\ \A i \in DOMAIN finished : finished'[i] = finished[i]
      /\ finished'[Len(finished) + 1] = f
      /\ finished' \in Seq(S \cup {f})
  <2> HIDE DEF S
  <2> QED
    BY <1>6
<1>8. f.chunk = k /\ f.rows = rows
  BY DEF f
<1>9. /\ {finished[i].chunk : i \in DOMAIN finished} = (1..(next - 1)) \ running
      /\ running \subseteq 1..(next - 1) /\ lost \subseteq 1..(next - 1)
      /\ Len(finished) + Cardinality(running) = next - 1
      /\ next \in 1..(ChunkCount + 1) /\ Cardinality(running) <= Workers
      /\ \A i, j \in DOMAIN finished : finished[i].chunk = finished[j].chunk => i = j
  BY DEF IInv, Pool, TypeOK
<1>10. k \in 1..ChunkCount /\ k \notin {finished[i].chunk : i \in DOMAIN finished} /\ k \in 1..(next - 1)
  BY <1>3, <1>9
<1>11. {finished'[i].chunk : i \in DOMAIN finished'} = {finished[i].chunk : i \in DOMAIN finished} \cup {k}
  BY <1>7, <1>8
<1>12. {finished'[i].chunk : i \in DOMAIN finished'} = (1..(next' - 1)) \ running'
  BY <1>1, <1>9, <1>10, <1>11
<1>13. TypeOK'
  <2>1. Len(finished') + Cardinality(running') = next' - 1 /\ Cardinality(running') <= Workers
    BY <1>1, <1>3, <1>4, <1>7, <1>9
  <2>2. lost' \subseteq 1..(next' - 1) /\ next' \in 1..(ChunkCount' + 1)
    BY <1>1, <1>2, <1>9, <1>10
  <2> QED
    BY <1>1, <1>2, <1>12, <2>1, <2>2 DEF IInv, TypeOK
<1>14. Pool'
  <2>1. \A i, j \in DOMAIN finished' : finished'[i].chunk = finished'[j].chunk => i = j
    BY <1>7, <1>8, <1>9, <1>10
  <2>2. finished' \in Seq({finished'[i] : i \in DOMAIN finished'})
    <3>1. S \cup {f} = {finished'[i] : i \in DOMAIN finished'}
      BY <1>7
    <3> QED
      BY <1>7, <3>1
  <2>3. lost' \subseteq {finished'[i].chunk : i \in DOMAIN finished'}
    BY <1>11 DEF IInv, Pool
  <2> QED
    BY <1>1, <1>9, <2>1, <2>2, <2>3 DEF Pool
<1> QED
  BY <1>7, <1>10, <1>13, <1>14 DEF f

(* The rest of the invariant, when what the chunk holds fits its stage.     *)
LEMMA FinishStep ==
    ASSUME IInv, NEW k \in running, NEW rows, Finish(k, rows),
           lost' = lost \/ lost' = lost \cup {k},
           pc = "annotate" => rows = <<>> \/ rows \in [ToSet(Chunk(k)) -> Annotation],
           pc = "render" => IF k \in lost' THEN rows = <<>> ELSE RowsOf(k, rows)
    PROVE  IInv'
<1>1. /\ TypeOK' /\ Pool' /\ k \in 1..ChunkCount
      /\ k \notin {finished[i].chunk : i \in DOMAIN finished}
      /\ DOMAIN finished' = 1..(Len(finished) + 1) /\ DOMAIN finished = 1..Len(finished)
      /\ Len(finished) \in Nat
      /\ \A i \in DOMAIN finished : finished'[i] = finished[i]
      /\ finished'[Len(finished) + 1] = [chunk |-> k, rows |-> rows]
  BY FinishIs
<1>2. UNCHANGED <<doc, pc, extracted, annotations, classes, next, rendered>>
  BY DEF Finish
<1>3. Clauses' = Clauses /\ ids' = ids /\ ChunkCount' = ChunkCount /\ \A c : Chunk(c)' = Chunk(c)
  BY <1>2, SameContract
<1>4. \A c : Renderings(c)' = Renderings(c)
  BY <1>2, SameRenderings
<1>5. \A i \in DOMAIN finished' :
         \/ i \in DOMAIN finished /\ finished'[i] = finished[i] /\ finished[i].chunk # k
         \/ finished'[i].chunk = k /\ finished'[i].rows = rows
  BY <1>1
<1>6. Annotated'
  BY <1>2, <1>3, <1>5 DEF IInv, Annotated
<1>7. Rendered'
  <2> SUFFICES ASSUME pc = "render", NEW i \in DOMAIN finished'
               PROVE  IF finished'[i].chunk \in lost' THEN finished'[i].rows = <<>>
                      ELSE RowsOf(finished'[i].chunk, finished'[i].rows)
    BY <1>2, <1>3, <1>4 DEF Rendered, RowsOf
  <2>1. CASE i \in DOMAIN finished /\ finished'[i] = finished[i] /\ finished[i].chunk # k
    <3>1. IF finished[i].chunk \in lost THEN finished[i].rows = <<>>
          ELSE RowsOf(finished[i].chunk, finished[i].rows)
      BY <2>1 DEF IInv, Rendered
    <3>2. finished[i].chunk \in lost' <=> finished[i].chunk \in lost
      BY <2>1
    <3> QED
      BY <2>1, <3>1, <3>2
  <2>2. CASE finished'[i].chunk = k /\ finished'[i].rows = rows
    BY <2>2
  <2> QED
    BY <1>5, <2>1, <2>2
<1>8. Shown'
  BY <1>2, ShownStays DEF IInv
<1>9. Early'
  BY <1>2 DEF IInv, Early
<1>10. Distinct' /\ Cited' /\ Classified' /\ Blank' /\ ReadyInOrder'
  BY <1>2, <1>3, CitedStays DEF IInv, Distinct, Classified, Blank, ReadyInOrder
<1> QED
  BY <1>1, <1>6, <1>7, <1>8, <1>9, <1>10 DEF IInv

LEMMA AnnotateChunkStep ==
    ASSUME IInv, NEW k \in running, AnnotateChunk(k)
    PROVE  IInv'
<1>1. PICK rows \in [ToSet(Chunk(k)) -> Annotation] : Finish(k, rows)
  BY DEF AnnotateChunk
<1> QED
  BY <1>1, FinishStep DEF AnnotateChunk

(* The rows of a rendered chunk are those of its clauses.                   *)
LEMMA RenderChunkStep ==
    ASSUME IInv, NEW k \in running, RenderChunk(k)
    PROVE  IInv'
<1> DEFINE rowsOf(choice) == [i \in DOMAIN Chunk(k) |->
               Rendering(choice[Chunk(k)[i]][1], choice[Chunk(k)[i]][2], Chunk(k)[i])]
<1>1. PICK choice \in [ToSet(Chunk(k)) -> Candidates \X Candidates] : Finish(k, rowsOf(choice))
  BY DEF RenderChunk
<1> DEFINE rows == rowsOf(choice)
<1>2. pc = "render" /\ lost' = lost /\ TypeOK /\ classes \in [ids -> Rules \cup {NoRule}]
  BY DEF RenderChunk, IInv, Classified
<1>3. k \in 1..ChunkCount /\ k \notin {finished[i].chunk : i \in DOMAIN finished}
  <2> HIDE DEF rowsOf
  <2> QED
    BY <1>1, <1>2, FinishIs
<1>4. /\ Chunk(k) \in Seq(STRING) /\ DOMAIN Chunk(k) = 1..Len(Chunk(k))
      /\ \A j \in DOMAIN Chunk(k) : Chunk(k)[j] \in ids /\ Chunk(k)[j] \in ToSet(Chunk(k))
  BY <1>2, <1>3, ChunksAre
<1>5. ASSUME NEW j \in DOMAIN Chunk(k) PROVE rows[j] \in Renderings(Chunk(k)[j])
  <2>1. choice[Chunk(k)[j]] \in Candidates \X Candidates
    BY <1>4
  <2>2. choice[Chunk(k)[j]][1] \in Candidates /\ choice[Chunk(k)[j]][2] \in Candidates
    BY <2>1
  <2>3. rows[j] = Rendering(choice[Chunk(k)[j]][1], choice[Chunk(k)[j]][2], Chunk(k)[j])
    OBVIOUS
  <2> QED
    BY <2>2, <2>3 DEF Renderings
<1>6. \A j \in DOMAIN Chunk(k) : rows[j] \in Row
  BY <1>2, <1>4, <1>5, RenderingIs
<1>7. RowsOf(k, rows)
  <2>1. Len(Chunk(k)) \in Nat /\ DOMAIN rows = 1..Len(Chunk(k))
    BY <1>4
  <2> HIDE DEF rows
  <2>2. rows = [j \in 1..Len(Chunk(k)) |-> rows[j]]
    BY <2>1 DEF rows
  <2>3. rows \in Seq(Row) /\ Len(rows) = Len(Chunk(k))
    BY <1>4, <1>6, <2>1, <2>2
  <2> QED
    BY <1>5, <2>3 DEF RowsOf
<1>8. k \notin lost
  BY <1>3 DEF IInv, Pool
<1> HIDE DEF rows, rowsOf
<1> QED
  BY <1>1, <1>2, <1>7, <1>8, FinishStep DEF rows

LEMMA ChunkRaisesStep ==
    ASSUME IInv, NEW k \in running, ChunkRaises(k)
    PROVE  IInv'
<1>1. Finish(k, <<>>) /\ lost' = IF pc = "render" THEN lost \cup {k} ELSE lost
  BY DEF ChunkRaises
<1>2. pc = "render" => k \in lost'
  BY <1>1
<1> QED
  BY <1>1, <1>2, FinishStep

(* When the pool is done every chunk has finished, and ResultOf finds what  *)
(* it holds.                                                                *)
LEMMA DoneIs ==
    ASSUME IInv, PoolDone
    PROVE  \A k \in 1..ChunkCount :
              \E i \in DOMAIN finished : finished[i].chunk = k /\ ResultOf(k) = finished[i].rows
<1>1. /\ IsFiniteSet(running) /\ Cardinality(running) \in Nat
      /\ next \in Nat \ {0} /\ ChunkCount \in Nat
  BY RunningIs, ChunksAre DEF IInv
<1>2. /\ {finished[i].chunk : i \in DOMAIN finished} = (1..(next - 1)) \ running
      /\ Len(finished) + Cardinality(running) = next - 1
      /\ next \in 1..(ChunkCount + 1) /\ Len(finished) = ChunkCount
  BY DEF IInv, TypeOK, PoolDone
<1>3. Cardinality(running) = 0 /\ next - 1 = ChunkCount
  BY <1>1, <1>2
<1>4. running = {}
  BY <1>1, <1>3, FS_EmptySet
<1> SUFFICES ASSUME NEW k \in 1..ChunkCount
             PROVE  \E i \in DOMAIN finished : finished[i].chunk = k /\ ResultOf(k) = finished[i].rows
  OBVIOUS
<1>5. k \in {finished[i].chunk : i \in DOMAIN finished}
  BY <1>2, <1>3, <1>4
<1> DEFINE m == CHOOSE i \in DOMAIN finished : finished[i].chunk = k
<1>6. m \in DOMAIN finished /\ finished[m].chunk = k
  BY <1>5
<1> QED
  BY <1>6 DEF ResultOf

-----------------------------------------------------------------------------
(* The steps between the stages.                                            *)

LEMMA HomeOnlyIs ==
    ASSUME NEW a \in Annotation
    PROVE  HomeOnly(a) \in Annotation /\ Applies(HomeOnly(a).cites)
<1>1. a = [risk |-> a.risk, cites |-> a.cites] /\ a.risk \in Risks \cup {"amber"}
  BY DEF Annotation
<1>2. [a EXCEPT !.cites = NoCitation] = [risk |-> a.risk, cites |-> NoCitation]
  BY <1>1
<1>3. NoCitation \in Citations
  BY DataAssumption
<1>4. Applies(NoCitation)
  BY DEF Applies, Required, NoCitation
<1> QED
  BY <1>1, <1>2, <1>3, <1>4 DEF HomeOnly, Annotation

LEMMA AnnotateStep ==
    ASSUME IInv, Annotate
    PROVE  IInv'
<1>1. /\ pc = "annotate" /\ PoolDone /\ pc' = "classify" /\ annotations' = Joined
      /\ EmptyPool /\ UNCHANGED <<doc, extracted, classes, rendered>>
  BY DEF Annotate
<1>2. TypeOK /\ ChunkCount \in Nat /\ rendered = <<>>
  BY <1>1, ChunksAre DEF IInv, Blank
<1>3. Clauses' = Clauses /\ ids' = ids /\ ChunkCount' = ChunkCount
  BY <1>1, SameContract
<1>4. Unannotated \in Annotation
  BY DataAssumption DEF Unannotated, Annotation
<1>5. ASSUME NEW k \in 1..ChunkCount, ResultOf(k) # <<>>
      PROVE  ResultOf(k) \in [ToSet(Chunk(k)) -> Annotation]
  <2>1. PICK i \in DOMAIN finished : finished[i].chunk = k /\ ResultOf(k) = finished[i].rows
    BY <1>1, DoneIs
  <2> QED
    BY <1>1, <1>5, <2>1 DEF IInv, Annotated
<1>6. Joined \in [ids -> Annotation] /\ \A c \in ids : Applies(Joined[c].cites)
  <2> DEFINE found == {k \in 1..ChunkCount : ResultOf(k) # <<>>}
             chunkOf(c) == {k \in found : c \in ToSet(Chunk(k))}
             raw(c) == IF chunkOf(c) = {} THEN Unannotated
                       ELSE ResultOf(CHOOSE k \in chunkOf(c) : TRUE)[c]
  <2>1. Joined = [c \in ids |-> HomeOnly(raw(c))]
    BY DEF Joined
  <2>2. ASSUME NEW c \in ids PROVE raw(c) \in Annotation
    <3>1. CASE chunkOf(c) = {}
      BY <3>1, <1>4
    <3>2. CASE chunkOf(c) # {}
      <4> DEFINE k == CHOOSE k \in chunkOf(c) : TRUE
      <4>1. k \in chunkOf(c)
        BY <3>2
      <4>2. k \in 1..ChunkCount /\ ResultOf(k) # <<>> /\ c \in ToSet(Chunk(k))
        BY <4>1
      <4>3. raw(c) = ResultOf(k)[c]
        BY <3>2
      <4> HIDE DEF k, raw
      <4> QED
        BY <4>2, <4>3, <1>5
    <3> QED
      BY <3>1, <3>2
  <2> HIDE DEF raw
  <2> QED
    BY <2>1, <2>2, HomeOnlyIs
<1>7. TypeOK' /\ Pool'
  BY <1>1, <1>2, <1>3, <1>6, EmptyPoolIs DEF TypeOK
<1>8. Cited'
  BY <1>1, <1>6 DEF Cited, Applies, Required
<1>9. Distinct'
  BY <1>1, <1>3 DEF IInv, Distinct
<1>10. finished' = <<>> /\ rendered' = <<>> /\ pc' = "classify"
  BY <1>1, <1>2 DEF EmptyPool
<1> QED
  BY <1>7, <1>8, <1>9, <1>10
     DEF IInv, Early, Annotated, Rendered, Classified, Shown, Blank, ReadyInOrder

LEMMA AnnotateRaisesStep ==
    ASSUME IInv, AnnotateRaises
    PROVE  IInv'
<1>1. /\ pc = "annotate" /\ pc' = "classify"
      /\ EmptyPool /\ UNCHANGED <<doc, extracted, annotations, classes, rendered>>
  BY DEF AnnotateRaises
<1>2. TypeOK /\ ChunkCount \in Nat /\ rendered = <<>> /\ Cited /\ Distinct
  BY <1>1, ChunksAre DEF IInv, Blank
<1>3. Clauses' = Clauses /\ ids' = ids /\ ChunkCount' = ChunkCount
  BY <1>1, SameContract
<1>4. TypeOK' /\ Pool'
  BY <1>1, <1>2, <1>3, EmptyPoolIs DEF TypeOK
<1>5. Cited' /\ Distinct'
  BY <1>1, <1>2, <1>3 DEF Cited, Applies, Required, Distinct
<1>6. finished' = <<>> /\ rendered' = <<>>
  BY <1>1, <1>2 DEF EmptyPool
<1> QED
  BY <1>1, <1>4, <1>5, <1>6
     DEF IInv, Early, Annotated, Rendered, Classified, Shown, Blank, ReadyInOrder

LEMMA ClassifyStep ==
    ASSUME IInv, Classify
    PROVE  IInv'
<1>1. /\ pc = "classify" /\ pc' = "render" /\ classes' \in [ids -> Rules \cup {NoRule}]
      /\ EmptyPool /\ UNCHANGED <<doc, extracted, annotations, rendered>>
  BY DEF Classify
<1>2. TypeOK /\ ChunkCount \in Nat /\ rendered = <<>> /\ Cited /\ Distinct
  BY <1>1, ChunksAre DEF IInv, Blank
<1>3. Clauses' = Clauses /\ ids' = ids /\ ChunkCount' = ChunkCount
  BY <1>1, SameContract
<1>4. TypeOK' /\ Pool'
  BY <1>1, <1>2, <1>3, EmptyPoolIs DEF TypeOK
<1>5. Cited' /\ Distinct'
  BY <1>1, <1>2, <1>3 DEF Cited, Applies, Required, Distinct
<1>6. finished' = <<>> /\ rendered' = <<>>
  BY <1>1, <1>2 DEF EmptyPool
<1> QED
  BY <1>1, <1>3, <1>4, <1>5, <1>6
     DEF IInv, Early, Annotated, Rendered, Classified, Shown, Blank, ReadyInOrder

-----------------------------------------------------------------------------
(* Assembling.                                                              *)

LEMMA SetToSeqIs ==
    ASSUME NEW S, IsFiniteSet(S)
    PROVE  SetToSeq(S) \in [1..Cardinality(S) -> S]
<1>1. ExistsBijection(1..Cardinality(S), S)
  BY FS_CardinalityType
<1>2. \E f \in [1..Cardinality(S) -> S] : IsInjective(f)
  BY <1>1 DEF ExistsBijection, Bijection, Injection
<1> QED
  BY <1>2 DEF SetToSeq

(* Assembled in parts: what the chunks hold, the clauses without a row, and *)
(* the rows filled in for them.                                             *)
Parts == [k \in 1..ChunkCount |-> ResultOf(k)]
Gone == ids \ {FlattenSeq(Parts)[i].clause : i \in DOMAIN FlattenSeq(Parts)}
Filled == [i \in 1..Cardinality(Gone) |-> Missing(SetToSeq(Gone)[i])]

LEMMA PartsAre ==
    ASSUME IInv, pc = "render", PoolDone
    PROVE  /\ Parts \in Seq(Seq(Row)) /\ Len(Parts) = ChunkCount /\ DOMAIN Parts = 1..ChunkCount
           /\ \A k \in 1..ChunkCount : \A j \in DOMAIN Parts[k] :
                 \E c \in ids : Parts[k][j] \in Renderings(c)
           /\ lost = {} => \A k \in 1..ChunkCount : RowsOf(k, Parts[k])
<1>1. TypeOK /\ ChunkCount \in Nat
  BY ChunksAre DEF IInv
<1>2. ASSUME NEW k \in 1..ChunkCount
      PROVE  /\ Parts[k] = <<>> \/ RowsOf(k, Parts[k])
             /\ lost = {} => RowsOf(k, Parts[k])
  <2>1. PICK i \in DOMAIN finished : finished[i].chunk = k /\ ResultOf(k) = finished[i].rows
    BY DoneIs
  <2>2. Parts[k] = finished[i].rows
    BY <2>1 DEF Parts
  <2>3. IF finished[i].chunk \in lost THEN finished[i].rows = <<>>
        ELSE RowsOf(finished[i].chunk, finished[i].rows)
    BY DEF IInv, Rendered
  <2> QED
    BY <2>1, <2>2, <2>3
<1>3. <<>> \in Seq(Row)
  OBVIOUS
<1>4. \A k \in 1..ChunkCount : Parts[k] \in Seq(Row)
  BY <1>2, <1>3 DEF RowsOf
<1>5. Parts = [k \in 1..ChunkCount |-> Parts[k]]
  BY DEF Parts
<1>6. Parts \in Seq(Seq(Row)) /\ Len(Parts) = ChunkCount /\ DOMAIN Parts = 1..ChunkCount
  BY <1>1, <1>4, <1>5
<1>7. ASSUME NEW k \in 1..ChunkCount, NEW j \in DOMAIN Parts[k]
      PROVE  \E c \in ids : Parts[k][j] \in Renderings(c)
  <2>1. RowsOf(k, Parts[k])
    BY <1>2, <1>7
  <2>2. DOMAIN Parts[k] = DOMAIN Chunk(k)
    BY <1>1, <2>1, ChunksAre DEF RowsOf
  <2>3. Parts[k][j] \in Renderings(Chunk(k)[j]) /\ Chunk(k)[j] \in ids
    BY <1>1, <2>1, <2>2, ChunksAre DEF RowsOf
  <2> QED
    BY <2>3
<1> QED
  BY <1>2, <1>6, <1>7

LEMMA AssembledIs ==
    ASSUME IInv, pc = "render", PoolDone
    PROVE  /\ Assembled \in Seq(Row)
           /\ \A i \in DOMAIN Assembled :
                 /\ Assembled[i].clause \in ids
                 /\ Assembled[i] \in Renderings(Assembled[i].clause) \cup {Missing(Assembled[i].clause)}
                 /\ lost = {} => Assembled[i] \in Renderings(Assembled[i].clause)
           /\ lost = {} => [i \in DOMAIN Assembled |-> Assembled[i].clause] = Clauses
<1> DEFINE shown == FlattenSeq(Parts)
<1>1. /\ TypeOK /\ ChunkCount \in Nat /\ Clauses # <<>> /\ Clauses \in Seq(STRING)
      /\ classes \in [ids -> Rules \cup {NoRule}]
      /\ ChunkCount = Count(Clauses, ChunkSize) /\ ChunkSize \in Nat \ {0}
      /\ ids = {Clauses[i] : i \in DOMAIN Clauses} /\ ids \subseteq STRING
  BY ChunksAre DEF IInv, Distinct, Classified
<1>2. /\ Parts \in Seq(Seq(Row)) /\ Len(Parts) = ChunkCount /\ DOMAIN Parts = 1..ChunkCount
      /\ \A k \in 1..ChunkCount : \A j \in DOMAIN Parts[k] :
            \E c \in ids : Parts[k][j] \in Renderings(c)
      /\ lost = {} => \A k \in 1..ChunkCount : RowsOf(k, Parts[k])
  BY PartsAre
<1>3. Parts # <<>>
  <2>1. Len(Clauses) \in Nat /\ Len(Clauses) > 0
    BY <1>1
  <2>2. ChunkCount > 0
    BY <1>1, <2>1, CountCovers DEF Count
  <2> QED
    BY <1>2, <2>2
<1>4. /\ shown \in Seq(Row)
      /\ \A i \in DOMAIN shown : \E k \in DOMAIN Parts : \E j \in DOMAIN Parts[k] : shown[i] = Parts[k][j]
  BY <1>2, <1>3, FlattenFrom
<1>5. ASSUME NEW i \in DOMAIN shown
      PROVE  shown[i].clause \in ids /\ shown[i] \in Renderings(shown[i].clause)
  <2>1. PICK c \in ids : shown[i] \in Renderings(c)
    BY <1>2, <1>4
  <2> HIDE DEF shown
  <2>2. shown[i].clause = c
    BY <1>1, <2>1, RenderingIs
  <2> QED
    BY <2>1, <2>2
<1>6. Assembled = shown \o Filled
  BY DEF Assembled, Filled, Gone, Parts
<1>7. Gone \subseteq ids /\ IsFiniteSet(Gone) /\ Cardinality(Gone) \in Nat
  <2>1. Gone \subseteq ids
    BY DEF Gone
  <2>2. IsFiniteSet(DOMAIN Clauses)
    BY <1>1, FS_Interval
  <2>3. IsFiniteSet({Clauses[i] : i \in DOMAIN Clauses})
    <3>1. Clauses \in [DOMAIN Clauses -> STRING]
      BY <1>1
    <3>2. Clauses \in Surjection(DOMAIN Clauses, {Clauses[i] : i \in DOMAIN Clauses})
      BY <3>1 DEF Surjection
    <3> QED
      BY <2>2, <3>2, FS_Surjection
  <2> QED
    BY <1>1, <2>1, <2>3, FS_Subset, FS_CardinalityType
<1>8. /\ Filled \in Seq(Row) /\ DOMAIN Filled = 1..Cardinality(Gone)
      /\ \A i \in DOMAIN Filled : Filled[i].clause \in ids /\ Filled[i] = Missing(Filled[i].clause)
  <2> DEFINE S == SetToSeq(Gone)
  <2>1. S \in [1..Cardinality(Gone) -> Gone]
    BY <1>7, SetToSeqIs
  <2> HIDE DEF S
  <2>2. Filled = [i \in 1..Cardinality(Gone) |-> Missing(S[i])]
    BY DEF Filled, S
  <2>3. \A i \in 1..Cardinality(Gone) :
           S[i] \in ids /\ Missing(S[i]) \in Row /\ Missing(S[i]).clause = S[i]
    BY <1>1, <1>7, <2>1, MissingIs
  <2> QED
    BY <1>7, <2>2, <2>3
<1> HIDE DEF shown
<1>9. /\ shown \o Filled \in Seq(Row)
      /\ \A i \in DOMAIN (shown \o Filled) :
            \/ i \in DOMAIN shown /\ (shown \o Filled)[i] = shown[i]
            \/ \E j \in DOMAIN Filled : (shown \o Filled)[i] = Filled[j]
  <2>1. shown \o Filled \in Seq(Row)
    BY <1>4, <1>8
  <2>2. ASSUME NEW i \in DOMAIN (shown \o Filled), i \notin DOMAIN shown
        PROVE  i - Len(shown) \in DOMAIN Filled /\ (shown \o Filled)[i] = Filled[i - Len(shown)]
    <3>1. \A a, b, j : /\ a \in Seq(Row) /\ b \in Seq(Row) /\ j \in DOMAIN (a \o b) /\ j \notin DOMAIN a
                       => j - Len(a) \in DOMAIN b /\ (a \o b)[j] = b[j - Len(a)]
      BY ONLY ConcatIs
    <3> QED
      BY ONLY <1>4, <1>8, <2>2, <3>1, Zenon
  <2>3. ASSUME NEW i \in DOMAIN (shown \o Filled), i \in DOMAIN shown
        PROVE  (shown \o Filled)[i] = shown[i]
    BY ONLY <1>4, <1>8, <2>3, ConcatIs
  <2> QED
    BY <2>1, <2>2, <2>3
<1>10. ASSUME lost = {}
       PROVE  Filled = <<>> /\ [i \in DOMAIN shown |-> shown[i].clause] = Clauses
  <2>1. ASSUME NEW k \in DOMAIN Parts
        PROVE  /\ Len(Parts[k]) = Len(Piece(Clauses, ChunkSize, k))
               /\ \A j \in DOMAIN Parts[k] : Parts[k][j].clause = Piece(Clauses, ChunkSize, k)[j]
    <3>1. RowsOf(k, Parts[k]) /\ k \in 1..ChunkCount
      BY <1>2, <1>10
    <3>2. /\ Chunk(k) = Piece(Clauses, ChunkSize, k) /\ DOMAIN Chunk(k) = 1..Len(Chunk(k))
          /\ \A j \in DOMAIN Chunk(k) : Chunk(k)[j] \in ids
      BY <1>1, <3>1, ChunksAre
    <3>3. DOMAIN Parts[k] = DOMAIN Chunk(k) /\ Len(Parts[k]) = Len(Chunk(k))
      BY <3>1, <3>2 DEF RowsOf
    <3>4. ASSUME NEW j \in DOMAIN Chunk(k) PROVE Parts[k][j].clause = Chunk(k)[j]
      <4>1. Parts[k][j] \in Renderings(Chunk(k)[j])
        BY <3>1 DEF RowsOf
      <4> QED
        BY <1>1, <3>2, <4>1, RenderingIs
    <3> QED
      BY <3>2, <3>3, <3>4
  <2>2. Len(shown) = Len(Clauses) /\ \A i \in DOMAIN shown : shown[i].clause = Clauses[i]
    <3>1. Len(Parts) = Count(Clauses, ChunkSize)
      BY <1>1, <1>2
    <3>2. \A k \in DOMAIN Parts :
             /\ Len(Parts[k]) = Len(Piece(Clauses, ChunkSize, k))
             /\ \A j \in DOMAIN Parts[k] : Parts[k][j].clause = Piece(Clauses, ChunkSize, k)[j]
      BY <2>1
    <3>3. Clauses \in Seq(STRING) /\ Clauses # <<>> /\ ChunkSize \in Nat \ {0} /\ Parts \in Seq(Seq(Row))
      BY <1>1, <1>2
    <3>5. /\ Len(FlattenSeq(Parts)) = Len(Clauses)
          /\ \A i \in DOMAIN FlattenSeq(Parts) : FlattenSeq(Parts)[i].clause = Clauses[i]
      BY ONLY <3>1, <3>2, <3>3, InOrder, ZenonT(60)
    <3> QED
      BY <3>5 DEF shown
  <2>3. DOMAIN shown = DOMAIN Clauses
    BY <1>1, <1>4, <2>2
  <2>4. [i \in DOMAIN shown |-> shown[i].clause] = Clauses
    <3>1. Clauses = [i \in DOMAIN Clauses |-> Clauses[i]]
      BY <1>1
    <3> QED
      BY <2>2, <2>3, <3>1
  <2>5. Gone = {}
    BY <1>1, <2>2, <2>3 DEF Gone, shown
  <2>6. Filled = <<>>
    <3>1. Cardinality(Gone) = 0
      BY <2>5, FS_EmptySet
    <3>2. Len(Filled) = 0
      BY <1>8, <3>1
    <3> QED
      BY <1>8, <3>2
  <2> QED
    BY <2>4, <2>6
<1>11. lost = {} => Assembled = shown
  BY <1>4, <1>6, <1>10
<1>12. ASSUME NEW i \in DOMAIN Assembled
       PROVE  /\ Assembled[i].clause \in ids
              /\ Assembled[i] \in Renderings(Assembled[i].clause) \cup {Missing(Assembled[i].clause)}
              /\ lost = {} => Assembled[i] \in Renderings(Assembled[i].clause)
  BY <1>5, <1>6, <1>8, <1>9, <1>11
<1>13. lost = {} => [i \in DOMAIN Assembled |-> Assembled[i].clause] = Clauses
  BY <1>10, <1>11
<1>14. Assembled \in Seq(Row)
  BY <1>6, <1>9
<1> QED
  BY <1>12, <1>13, <1>14

LEMMA SynthesiseStep ==
    ASSUME IInv, Synthesise
    PROVE  IInv'
<1>1. /\ pc = "render" /\ PoolDone /\ rendered' = Assembled
      /\ pc' = IF lost # {} THEN "failed" ELSE "ready"
      /\ UNCHANGED <<doc, extracted, annotations, classes, next, running, finished, lost>>
  BY DEF Synthesise, pool
<1>2. Clauses' = Clauses /\ ids' = ids /\ ChunkCount' = ChunkCount
  BY <1>1, SameContract
<1>3. /\ \A c : Renderings(c)' = Renderings(c)
      /\ \A c : Missing(c)' = Missing(c)
  BY <1>1, SameRenderings DEF Missing
<1>4. /\ Assembled \in Seq(Row)
      /\ \A i \in DOMAIN Assembled :
            /\ Assembled[i].clause \in ids
            /\ Assembled[i] \in Renderings(Assembled[i].clause) \cup {Missing(Assembled[i].clause)}
            /\ lost = {} => Assembled[i] \in Renderings(Assembled[i].clause)
      /\ lost = {} => [i \in DOMAIN Assembled |-> Assembled[i].clause] = Clauses
  BY <1>1, AssembledIs
<1>5. classes \in [ids -> Rules \cup {NoRule}]
  BY <1>1 DEF IInv, Classified
<1>6. TypeOK'
  BY <1>1, <1>2, <1>4 DEF IInv, TypeOK
<1>7. Shown'
  BY <1>1, <1>2, <1>3, <1>4, <1>5 DEF Shown
<1>8. ReadyInOrder'
  BY <1>1, <1>2, <1>4 DEF ReadyInOrder
<1>9. Distinct' /\ Pool' /\ Cited' /\ Classified'
  BY <1>1, <1>2, <1>5, CitedStays DEF IInv, Distinct, Pool, Classified
<1>10. pc' \in {"failed", "ready"}
  BY <1>1
<1> QED
  BY <1>6, <1>7, <1>8, <1>9, <1>10 DEF IInv, Early, Annotated, Rendered, Blank

LEMMA NextIInv == IInv /\ [Next]_vars => IInv'
<1> SUFFICES ASSUME IInv, [Next]_vars PROVE IInv'
  OBVIOUS
<1>1. CASE ExtractFast
  <2>1. PICK e \in Extractions :
           IF NeedsFallback(e)
             THEN pc' = "extract_smart" /\ UNCHANGED <<doc, extracted, annotations, classes, pool, rendered>>
             ELSE Found(e)
    BY <1>1 DEF ExtractFast
  <2> QED
    BY <1>1, <2>1, FoundStep, MoveStep DEF ExtractFast
<1>2. CASE ExtractSmart
  BY <1>2, FoundStep DEF ExtractSmart
<1>3. CASE ExtractRaises
  BY <1>3, MoveStep DEF ExtractRaises
<1>4. CASE StartChunk
  BY <1>4, StartStep
<1>5. ASSUME NEW k \in running, AnnotateChunk(k) \/ RenderChunk(k) \/ ChunkRaises(k)
      PROVE  IInv'
  BY <1>5, AnnotateChunkStep, RenderChunkStep, ChunkRaisesStep
<1>6. CASE Annotate
  BY <1>6, AnnotateStep
<1>7. CASE AnnotateRaises
  BY <1>7, AnnotateRaisesStep
<1>8. CASE Classify
  BY <1>8, ClassifyStep
<1>9. CASE Synthesise
  BY <1>9, SynthesiseStep
<1>10. CASE SynthesiseRaises
  BY <1>10, MoveStep DEF SynthesiseRaises
<1>11. CASE UNCHANGED vars
  BY <1>11, MoveStep DEF vars, pool
<1> QED
  BY <1>1, <1>2, <1>3, <1>4, <1>5, <1>6, <1>7, <1>8, <1>9, <1>10, <1>11 DEF Next

LEMMA Invariance == Spec => []IInv
<1> QED
  BY InitIInv, NextIInv, PTL DEF Spec

-----------------------------------------------------------------------------
(* The theorems.                                                            *)

(* A ready contract shows every clause once, in the order of the contract,  *)
(* and no placeholder, in whatever order the chunks were started, finished  *)
(* or failed; and the pool keeps its books (stage3.py: 219-308).            *)
THEOREM InvHolds == Spec => []Inv
<1>1. IInv => Inv
  <2> SUFFICES ASSUME IInv, pc = "ready", NEW i \in DOMAIN rendered
               PROVE  rendered[i].source # "missing"
    BY DEF IInv, Inv, FailedBatchNeverReady
  <2>1. /\ classes \in [ids -> Rules \cup {NoRule}] /\ rendered[i].clause \in ids
        /\ rendered[i] \in Renderings(rendered[i].clause)
    BY DEF IInv, Shown
  <2> QED
    BY <2>1, RenderingIs DEF IInv
<1> QED
  BY <1>1, Invariance, PTL

(* A red clause of a ready contract advises an action, unless what is shown *)
(* is a rule's own safe text without one, whatever the models answered      *)
(* (stage3_validator.py: 153-163; stage3.py: 428-484).                      *)
THEOREM RedClausesActHolds == Spec => []RedClausesAct
<1>1. IInv => RedClausesAct
  <2> SUFFICES ASSUME IInv, pc = "ready", NEW i \in DOMAIN rendered, NEW c, c = rendered[i].clause,
                      annotations # <<>>, annotations[c].risk = "red", ~rendered[i].action
               PROVE  rendered[i].source = "fallback" /\ classes[c] # NoRule /\ ~classes[c].fallbackActs
    BY DEF RedClausesAct
  <2>1. /\ classes \in [ids -> Rules \cup {NoRule}] /\ c \in ids /\ rendered[i] \in Renderings(c) /\ TypeOK
    BY DEF IInv, Shown
  <2>2. AnnotationOf(c) = annotations[c]
    BY <2>1 DEF TypeOK, AnnotationOf
  <2>3. rendered[i].source = "fallback" /\ RuleOf(c) # NoRule /\ ~RuleOf(c).fallbackActs
    BY <2>1, <2>2, RenderingIs
  <2> QED
    BY <2>1, <2>3, RuleIs
<1> QED
  BY <1>1, Invariance, PTL

(* What requires the contract's own state, or none, names another state in  *)
(* the map's words only beside it.                                          *)
LEMMA KeptOutIs ==
    ASSUME NEW cite, Applies(cite)
    PROVE  KeptOut(cite)
<1> SUFFICES ASSUME NEW i \in DOMAIN Marked, Marked[i] \in cite \ doc.names
             PROVE  \E j \in 1..(i - 1) : Marked[j] \in cite \cap doc.names
  BY DEF KeptOut
<1> DEFINE hits == {k \in DOMAIN Marked : Marked[k] \in cite}
           h == CHOOSE k \in hits : \A j \in hits : k <= j
<1>1. DOMAIN Marked \subseteq Nat /\ Marked[i] \in States
      /\ \A k \in DOMAIN Marked : k \in 1..Len(Marked) /\ Marked[k] \in States
  BY DataAssumption
<1>2. i \in hits /\ hits \subseteq Nat
  BY <1>1
<1>3. \E k \in hits : \A j \in hits : k <= j
  <2> HIDE DEF hits
  <2> QED
    BY <1>2, Least
<1>4. h \in hits /\ h <= i
  BY <1>2, <1>3
<1>5. Required(cite) = Marked[h]
  BY <1>2 DEF Required
<1> HIDE DEF h
<1>6. Marked[h] \in doc.names
  <2>1. Marked[h] \in States /\ NoState \notin States
    BY <1>1, <1>4, DataAssumption
  <2> QED
    BY <2>1, <1>5 DEF Applies
<1>7. h # i
  BY <1>6
<1> QED
  BY <1>1, <1>4, <1>6, <1>7

(* A state's law, in the map's words, reaches the worker as a citation or as *)
(* the rule of a row only beside the contract's own (stage2.py: 353-379;    *)
(* stage3.py: 563-583).                                                     *)
THEOREM ForeignLawStaysOutHolds == Spec => []ForeignLawStaysOut
<1>1. IInv => ForeignLawStaysOut
  <2>1. ASSUME IInv, NEW c \in DOMAIN annotations PROVE KeptOut(annotations[c].cites)
    BY <2>1, KeptOutIs DEF IInv, Cited
  <2>2. ASSUME IInv, NEW i \in DOMAIN rendered, rendered[i].source = "library-rule"
        PROVE  KeptOut(classes[rendered[i].clause].cites)
    <3> DEFINE c == rendered[i].clause
    <3>1. /\ classes \in [ids -> Rules \cup {NoRule}] /\ c \in ids /\ TypeOK
          /\ rendered[i] \in Renderings(c) \cup {Missing(c)}
      BY <2>2 DEF IInv, Shown
    <3>2. rendered[i] \in Renderings(c)
      BY <2>2, <3>1 DEF Missing
    <3>3. RuleOf(c) # NoRule
      BY <2>2, <3>1, <3>2, RenderingIs
    <3> QED
      BY <3>1, <3>3, RuleIs, KeptOutIs
  <2> QED
    BY <2>1, <2>2 DEF ForeignLawStaysOut
<1> QED
  BY <1>1, Invariance, PTL
=============================================================================
