----------------------------- MODULE DiffProofs -----------------------------
(***************************************************************************)
(* Facts about the operators of module Diff and about FlattenSeq, for      *)
(* every order of names and keys: what listing a set, sorting and          *)
(* flattening return, and what a comparison reports.  The modules that     *)
(* prove properties of the scan and of the comparison EXTEND this one.     *)
(***************************************************************************)
EXTENDS Diff, FiniteSetTheorems, SequenceTheorems, TLAPS

-----------------------------------------------------------------------------
(* Listing a finite set in order.                                          *)

\* R orders S strictly and totally.
Orders(R, S) ==
  /\ \A x \in S : <<x, x>> \notin R
  /\ \A x, y \in S : x # y => <<x, y>> \in R \/ <<y, x>> \in R
  /\ \A x, y, z \in S : <<x, y>> \in R /\ <<y, z>> \in R => <<x, z>> \in R

Below(S, R, x) == {y \in S : <<y, x>> \in R}

(* The further up an element is, the more elements are below it.           *)
LEMMA BelowGrows ==
  ASSUME NEW S, IsFiniteSet(S), NEW R, Orders(R, S), NEW x \in S, NEW y \in S,
         <<x, y>> \in R
  PROVE  Cardinality(Below(S, R, x)) < Cardinality(Below(S, R, y))
<1>1. Below(S, R, x) \subseteq Below(S, R, y) /\ Below(S, R, x) # Below(S, R, y)
  BY DEF Below, Orders
<1>2. IsFiniteSet(Below(S, R, x)) /\ IsFiniteSet(Below(S, R, y))
  BY FS_Subset DEF Below
<1>3. /\ Cardinality(Below(S, R, x)) <= Cardinality(Below(S, R, y))
      /\ Cardinality(Below(S, R, x)) # Cardinality(Below(S, R, y))
  BY <1>1, <1>2, FS_Subset
<1>4. Cardinality(Below(S, R, x)) \in Nat /\ Cardinality(Below(S, R, y)) \in Nat
  BY <1>2, FS_CardinalityType
<1>5. QED
  BY <1>3, <1>4

(* Every place up to the size of the set is that of exactly one element.   *)
LEMMA OnePerPlace ==
  ASSUME NEW S, IsFiniteSet(S), NEW R, Orders(R, S)
  PROVE  /\ \A x \in S : Cardinality(Below(S, R, x)) \in 0..(Cardinality(S) - 1)
         /\ \A p \in 1..Cardinality(S) :
              \E x \in S : Cardinality(Below(S, R, x)) = p - 1
         /\ \A x, y \in S :
              Cardinality(Below(S, R, x)) = Cardinality(Below(S, R, y)) => x = y
<1> DEFINE N == Cardinality(S)
           place == [x \in S |-> Cardinality(Below(S, R, x)) + 1]
<1>1. N \in Nat
  BY FS_CardinalityType
<1>2. \A x \in S : Cardinality(Below(S, R, x)) \in 0..(N - 1)
  <2> TAKE x \in S
  <2>1. Below(S, R, x) \in SUBSET S /\ Below(S, R, x) # S
    BY DEF Below, Orders
  <2>2. Cardinality(Below(S, R, x)) \in Nat /\ Cardinality(Below(S, R, x)) <= N
        /\ Cardinality(Below(S, R, x)) # N
    BY <2>1, FS_Subset, FS_CardinalityType
  <2>3. QED
    BY <1>1, <2>2
<1>3. ASSUME NEW x \in S, NEW y \in S,
             Cardinality(Below(S, R, x)) = Cardinality(Below(S, R, y))
      PROVE  x = y
  <2>1. ~ (<<x, y>> \in R) /\ ~ (<<y, x>> \in R)
    <3>1. Cardinality(Below(S, R, x)) \in Int
      BY <1>1, <1>2
    <3>2. QED
      BY <1>3, <3>1, BelowGrows
  <2>2. QED
    BY <2>1 DEF Orders
<1>4. place \in Injection(S, 1..N)
  <2>1. \A x \in S : place[x] \in 1..N
    BY <1>1, <1>2
  <2>2. \A x, y \in S : place[x] = place[y] => x = y
    <3> TAKE x, y \in S
    <3> HAVE place[x] = place[y]
    <3>1. Cardinality(Below(S, R, x)) \in Int /\ Cardinality(Below(S, R, y)) \in Int
      BY <1>1, <1>2
    <3>2. Cardinality(Below(S, R, x)) = Cardinality(Below(S, R, y))
      BY <3>1
    <3>3. QED
      BY <1>3, <3>2
  <2>3. QED
    BY <2>1, <2>2 DEF Injection, IsInjective
<1>5. place \in Surjection(S, 1..N)
  <2>1. IsFiniteSet(1..N) /\ Cardinality(1..N) = N
    BY <1>1, FS_Interval
  <2>2. QED
    BY <1>4, <2>1, FS_Injection
<1>6. \A p \in 1..N : \E x \in S : Cardinality(Below(S, R, x)) = p - 1
  <2> TAKE p \in 1..N
  <2>1. PICK x \in S : place[x] = p
    BY <1>5 DEF Surjection
  <2>2. Cardinality(Below(S, R, x)) = p - 1
    BY <1>1, <1>2, <2>1
  <2>3. QED
    BY <2>2
<1>7. QED
  BY <1>2, <1>3, <1>6

(* A listing holds every element of the set once, in order.                *)
LEMMA ListedInOrder ==
  ASSUME NEW S, IsFiniteSet(S), NEW R, Orders(R, S)
  PROVE  /\ Listed(S, R) \in [1..Cardinality(S) -> S]
         /\ Listed(S, R) \in Seq(S) /\ Len(Listed(S, R)) = Cardinality(S)
         /\ DOMAIN Listed(S, R) = 1..Cardinality(S) /\ Cardinality(S) \in Nat
         /\ Range(Listed(S, R)) = S /\ IsInjective(Listed(S, R))
         /\ \A p, q \in 1..Cardinality(S) :
              p < q <=> <<Listed(S, R)[p], Listed(S, R)[q]>> \in R
<1> DEFINE N == Cardinality(S)
           s == Listed(S, R)
<1>1. N \in Nat
  BY FS_CardinalityType
<1>2. PICK f : s = f /\ f = [p \in 1..N |-> f[p]]
               /\ \A p \in 1..N : f[p] \in S /\ Cardinality(Below(S, R, f[p])) = p - 1
  <2> DEFINE chosen(p) == CHOOSE x \in S : Cardinality(Below(S, R, x)) = p - 1
             f == [p \in 1..N |-> chosen(p)]
  <2>1. s = f
    BY DEF Listed, Below
  <2>2. \A p \in 1..N : chosen(p) \in S /\ Cardinality(Below(S, R, chosen(p))) = p - 1
    BY OnePerPlace
  <2> HIDE DEF chosen
  <2>3. f = [p \in 1..N |-> f[p]] /\ \A p \in 1..N : f[p] = chosen(p)
    OBVIOUS
  <2>4. QED
    BY <2>1, <2>2, <2>3
<1>3. DOMAIN s = 1..N /\ \A p \in 1..N : s[p] \in S /\ Cardinality(Below(S, R, s[p])) = p - 1
  BY <1>2
<1>4. s \in [1..N -> S]
  BY <1>2
<1> HIDE DEF s
<1>5. s \in Seq(S) /\ Len(s) = N
  BY <1>1, <1>4
<1>6. Range(s) = S
  <2>1. Range(s) \subseteq S
    BY <1>3 DEF Range
  <2>2. ASSUME NEW x \in S PROVE x \in Range(s)
    <3> DEFINE p == Cardinality(Below(S, R, x)) + 1
    <3>1. p \in 1..N /\ p - 1 = Cardinality(Below(S, R, x))
      BY <1>1, OnePerPlace
    <3>2. s[p] = x
      BY <1>3, <3>1, OnePerPlace
    <3>3. QED
      BY <1>3, <3>1, <3>2 DEF Range
  <2>3. QED
    BY <2>1, <2>2
<1>7. IsInjective(s)
  <2> SUFFICES ASSUME NEW p \in 1..N, NEW q \in 1..N, s[p] = s[q] PROVE p = q
    BY <1>3 DEF IsInjective
  <2>1. p - 1 = q - 1
    BY <1>3
  <2>2. QED
    BY <1>1, <2>1
<1>8. ASSUME NEW p \in 1..N, NEW q \in 1..N
      PROVE  p < q <=> <<s[p], s[q]>> \in R
  <2>1. /\ s[p] \in S /\ s[q] \in S
        /\ Cardinality(Below(S, R, s[p])) = p - 1
        /\ Cardinality(Below(S, R, s[q])) = q - 1
    BY <1>3
  <2>2. <<s[p], s[q]>> \in R => p - 1 < q - 1
    BY <2>1, BelowGrows
  <2>3. <<s[q], s[p]>> \in R => q - 1 < p - 1
    BY <2>1, BelowGrows
  <2>4. s[p] = s[q] => p - 1 = q - 1
    BY <2>1
  <2>5. s[p] = s[q] \/ <<s[p], s[q]>> \in R \/ <<s[q], s[p]>> \in R
    BY <2>1 DEF Orders
  <2>6. QED
    BY <1>1, <2>2, <2>3, <2>4, <2>5
<1>9. QED
  BY <1>1, <1>3, <1>4, <1>5, <1>6, <1>7, <1>8 DEF s

-----------------------------------------------------------------------------
(* Flattening.  FlattenSeq is a recursively defined function: its equation *)
(* and its result follow by induction, in the form of a set of naturals    *)
(* that holds 0 and all its successors.                                    *)

(* Induction: a set of naturals with 0 and all successors is all of them.  *)
LEMMA NatSetInduction ==
  ASSUME NEW S, 0 \in S, \A n \in Nat : n \in S => n + 1 \in S
  PROVE  \A n \in Nat : n \in S
<1> DEFINE T == {n \in Nat : n \notin S}
           R == OpToRel(<, Nat)
<1> SUFFICES ASSUME T # {} PROVE FALSE
  OBVIOUS
<1>1. \E x \in T : \A y \in T : ~ (<<y, x>> \in R)
  BY NatLessThanWellFounded, WFMin
<1>2. PICK x \in T : \A y \in T : ~ (<<y, x>> \in R)
  BY <1>1
<1>3. x \in Nat /\ x \notin S /\ x # 0
  OBVIOUS
<1>4. x - 1 \in Nat /\ x - 1 \in T
  BY <1>3
<1>5. <<x - 1, x>> \in R
  BY <1>3, <1>4 DEF OpToRel
<1>6. QED
  BY <1>2, <1>4, <1>5

(* The function that FlattenSeq is defined by exists.                      *)
LEMMA FlattenEquation ==
  ASSUME NEW T, NEW ss \in Seq(Seq(T)), Len(ss) > 0
  PROVE  \E f : /\ f = [i \in 1..Len(ss) |-> IF i = 1 THEN ss[i] ELSE f[i - 1] \o ss[i]]
                /\ FlattenSeq(ss) = f[Len(ss)]
<1> DEFINE n == Len(ss)
           Eq(f, k) == f = [i \in 1..k |-> IF i = 1 THEN ss[i] ELSE f[i - 1] \o ss[i]]
           fl == CHOOSE f : Eq(f, n)
<1>1. FlattenSeq(ss) = fl[n]
  BY DEF FlattenSeq
<1>2. \E f : Eq(f, n)
  <2> DEFINE Q == {k \in Nat : \E f : Eq(f, k)}
  <2>1. 0 \in Q
    <3>1. Eq(<<>>, 0)
      OBVIOUS
    <3>2. QED
      BY <3>1
  <2>2. \A k \in Nat : k \in Q => k + 1 \in Q
    <3> TAKE k \in Nat
    <3> HAVE k \in Q
    <3>0. PICK f : Eq(f, k)
      OBVIOUS
    <3> DEFINE g == [i \in 1..(k + 1) |->
                       IF i <= k THEN f[i] ELSE IF i = 1 THEN ss[i] ELSE f[k] \o ss[i]]
    <3>1. ASSUME NEW i \in 1..(k + 1)
          PROVE  g[i] = IF i = 1 THEN ss[i] ELSE g[i - 1] \o ss[i]
      <4>1. i \in 1..k => f[i] = IF i = 1 THEN ss[i] ELSE f[i - 1] \o ss[i]
        BY <3>0
      <4>2. i \in 1..k => g[i] = f[i]
        OBVIOUS
      <4>3. i # 1 => i - 1 \in 1..k /\ g[i - 1] = f[i - 1]
        OBVIOUS
      <4>4. i \notin 1..k => i = k + 1 /\ g[i] = IF i = 1 THEN ss[i] ELSE f[i - 1] \o ss[i]
        OBVIOUS
      <4>5. QED
        BY <4>1, <4>2, <4>3, <4>4
    <3>2. Eq(g, k + 1)
      BY <3>1
    <3>3. \E h : Eq(h, k + 1)
      <4> HIDE DEF Eq
      <4>1. QED
        BY <3>2
    <3>4. QED
      <4> HIDE DEF Eq
      <4>1. QED
        BY <3>3
  <2> HIDE DEF Q
  <2>3. \A k \in Nat : k \in Q
    BY <2>1, <2>2, NatSetInduction
  <2>4. n \in Nat
    OBVIOUS
  <2>5. n \in Q
    BY <2>3, <2>4
  <2>6. QED
    BY <2>5 DEF Q
<1>3. Eq(fl, n)
  BY <1>2
<1>4. QED
  BY <1>1, <1>3

\* Position m of F is position pos[m] of block blk[m], in lexicographic order.
Placed(F, ss, k, blk, pos) ==
  /\ \A m \in 1..Len(F) : /\ blk[m] \in 1..k /\ pos[m] \in 1..Len(ss[blk[m]])
                          /\ F[m] = ss[blk[m]][pos[m]]
  /\ \A i \in 1..k : \A q \in 1..Len(ss[i]) :
       \E m \in 1..Len(F) : blk[m] = i /\ pos[m] = q
  /\ \A l, m \in 1..Len(F) :
       l < m => blk[l] < blk[m] \/ (blk[l] = blk[m] /\ pos[l] < pos[m])

(* One more block.                                                         *)
LEMMA OneMoreBlock ==
  ASSUME NEW T, NEW ss \in Seq(Seq(T)), NEW k \in Nat, k < Len(ss),
         NEW F \in Seq(T), NEW blk, NEW pos, Placed(F, ss, k, blk, pos)
  PROVE  /\ F \o ss[k + 1] \in Seq(T)
         /\ \E b, p : Placed(F \o ss[k + 1], ss, k + 1, b, p)
<1> DEFINE B == ss[k + 1]
           G == F \o B
           b == [m \in 1..Len(G) |-> IF m <= Len(F) THEN blk[m] ELSE k + 1]
           p == [m \in 1..Len(G) |-> IF m <= Len(F) THEN pos[m] ELSE m - Len(F)]
<1>1. B \in Seq(T) /\ Len(B) \in Nat /\ Len(F) \in Nat
  <2>1. k + 1 \in 1..Len(ss)
    OBVIOUS
  <2>2. QED
    BY <2>1
<1>2. G \in Seq(T) /\ Len(G) = Len(F) + Len(B)
  BY <1>1
<1>3. \A m \in 1..Len(F) : G[m] = F[m] /\ b[m] = blk[m] /\ p[m] = pos[m] /\ m \in 1..Len(G)
  BY <1>1, <1>2
<1>4. \A m \in 1..Len(G) :
        m \notin 1..Len(F) => /\ m - Len(F) \in 1..Len(B) /\ G[m] = B[m - Len(F)]
                              /\ b[m] = k + 1 /\ p[m] = m - Len(F)
  BY <1>1, <1>2
<1>5. \A q \in 1..Len(B) :
        /\ q + Len(F) \in 1..Len(G) /\ q + Len(F) \notin 1..Len(F)
        /\ (q + Len(F)) - Len(F) = q
  BY <1>1, <1>2
<1>6. /\ \A m \in 1..Len(F) : blk[m] \in 1..k /\ pos[m] \in 1..Len(ss[blk[m]])
                              /\ F[m] = ss[blk[m]][pos[m]]
      /\ \A i \in 1..k : \A q \in 1..Len(ss[i]) :
           \E m \in 1..Len(F) : blk[m] = i /\ pos[m] = q
      /\ \A l, m \in 1..Len(F) :
           l < m => blk[l] < blk[m] \/ (blk[l] = blk[m] /\ pos[l] < pos[m])
  BY DEF Placed
<1> HIDE DEF G, b, p
<1>7. ASSUME NEW m \in 1..Len(G)
      PROVE  b[m] \in 1..(k + 1) /\ p[m] \in 1..Len(ss[b[m]]) /\ G[m] = ss[b[m]][p[m]]
  <2>1. CASE m \in 1..Len(F)
    <3>1. blk[m] \in 1..k /\ pos[m] \in 1..Len(ss[blk[m]]) /\ F[m] = ss[blk[m]][pos[m]]
      BY <1>6, <2>1
    <3>2. b[m] = blk[m] /\ p[m] = pos[m] /\ G[m] = F[m]
      BY <1>3, <2>1
    <3>3. QED
      BY <3>1, <3>2
  <2>2. CASE m \notin 1..Len(F)
    <3>1. /\ b[m] = k + 1 /\ p[m] = m - Len(F) /\ m - Len(F) \in 1..Len(ss[k + 1])
          /\ G[m] = ss[k + 1][m - Len(F)]
      BY <1>4, <2>2
    <3>2. QED
      BY <3>1
  <2>3. QED
    BY <2>1, <2>2
<1>8. ASSUME NEW i \in 1..(k + 1), NEW q \in 1..Len(ss[i])
      PROVE  \E m \in 1..Len(G) : b[m] = i /\ p[m] = q
  <2>1. CASE i \in 1..k
    <3>1. PICK m \in 1..Len(F) : blk[m] = i /\ pos[m] = q
      BY <1>6, <2>1
    <3>2. m \in 1..Len(G) /\ b[m] = i /\ p[m] = q
      BY <1>3, <3>1
    <3>3. QED
      BY <3>2
  <2>2. CASE i = k + 1
    <3>1. q \in 1..Len(B)
      BY <2>2
    <3>2. q + Len(F) \in 1..Len(G) /\ b[q + Len(F)] = i /\ p[q + Len(F)] = q
      BY <1>4, <1>5, <2>2, <3>1
    <3>3. QED
      BY <3>2
  <2>3. QED
    BY <2>1, <2>2
<1>9. ASSUME NEW l \in 1..Len(G), NEW m \in 1..Len(G), l < m
      PROVE  b[l] < b[m] \/ (b[l] = b[m] /\ p[l] < p[m])
  <2>1. CASE m \in 1..Len(F)
    <3>1. l \in 1..Len(F)
      BY <1>1, <1>9, <2>1
    <3>2. QED
      BY <1>3, <1>6, <1>9, <2>1, <3>1
  <2>2. CASE m \notin 1..Len(F) /\ l \in 1..Len(F)
    <3>1. blk[l] \in 1..k /\ b[l] = blk[l] /\ b[m] = k + 1
      BY <1>3, <1>4, <1>6, <2>2
    <3>2. QED
      BY <3>1
  <2>3. CASE m \notin 1..Len(F) /\ l \notin 1..Len(F)
    <3>1. b[l] = k + 1 /\ b[m] = k + 1 /\ p[l] = l - Len(F) /\ p[m] = m - Len(F)
      BY <1>4, <2>3
    <3>2. QED
      BY <1>1, <1>2, <1>9, <3>1
  <2>4. QED
    BY <2>1, <2>2, <2>3
<1>10. Placed(G, ss, k + 1, b, p)
  BY <1>7, <1>8, <1>9 DEF Placed
<1>11. QED
  BY <1>2, <1>10 DEF G

(* Flattening keeps every position of every block, block by block.         *)
LEMMA FlattenPlaces ==
  ASSUME NEW T, NEW ss \in Seq(Seq(T))
  PROVE  /\ FlattenSeq(ss) \in Seq(T)
         /\ \E blk, pos : Placed(FlattenSeq(ss), ss, Len(ss), blk, pos)
<1> DEFINE n == Len(ss)
<1>0. n \in Nat /\ \A i \in 1..n : ss[i] \in Seq(T)
  OBVIOUS
<1>1. CASE n = 0
  <2>1. FlattenSeq(ss) = <<>>
    BY <1>1 DEF FlattenSeq
  <2>2. Placed(<<>>, ss, 0, <<>>, <<>>)
    BY DEF Placed
  <2>3. QED
    BY <1>1, <2>1, <2>2
<1>2. CASE n > 0
  <2>1. PICK f : /\ f = [i \in 1..n |-> IF i = 1 THEN ss[i] ELSE f[i - 1] \o ss[i]]
                 /\ FlattenSeq(ss) = f[n]
    BY <1>2, FlattenEquation
  <2>2. f[1] = ss[1] /\ \A k \in 1..n : k + 1 \in 1..n => f[k + 1] = f[k] \o ss[k + 1]
    <3>1. \A i \in 1..n : f[i] = IF i = 1 THEN ss[i] ELSE f[i - 1] \o ss[i]
      BY <2>1
    <3>2. 1 \in 1..n
      BY <1>0, <1>2
    <3>3. ASSUME NEW k \in 1..n, k + 1 \in 1..n PROVE f[k + 1] = f[k] \o ss[k + 1]
      <4>1. k + 1 # 1 /\ (k + 1) - 1 = k
        BY <1>0
      <4>2. f[k + 1] = f[(k + 1) - 1] \o ss[k + 1]
        BY <3>1, <3>3, <4>1
      <4>3. QED
        BY <4>1, <4>2
    <3>4. QED
      BY <3>1, <3>2, <3>3
  <2> DEFINE G(k) == f[k] \in Seq(T) /\ \E blk, pos : Placed(f[k], ss, k, blk, pos)
             Q == {k \in Nat : k \in 1..n => G(k)}
  <2>3. G(1)
    <3>1. <<>> \in Seq(T) /\ Placed(<<>>, ss, 0, <<>>, <<>>)
      BY DEF Placed
    <3>2. <<>> \o ss[0 + 1] \in Seq(T) /\ \E b, p : Placed(<<>> \o ss[0 + 1], ss, 0 + 1, b, p)
      BY <1>2, <3>1, OneMoreBlock
    <3>3. <<>> \o ss[0 + 1] = ss[1] /\ 0 + 1 = 1
      BY <1>0, <1>2
    <3>4. QED
      BY <2>2, <3>2, <3>3
  <2>4. ASSUME NEW k \in 1..n, k + 1 \in 1..n, G(k) PROVE G(k + 1)
    <3>1. k \in Nat /\ k < n
      BY <1>0, <2>4
    <3>2. PICK blk, pos : Placed(f[k], ss, k, blk, pos)
      BY <2>4
    <3>3. f[k] \o ss[k + 1] \in Seq(T) /\ \E b, p : Placed(f[k] \o ss[k + 1], ss, k + 1, b, p)
      BY <2>4, <3>1, <3>2, OneMoreBlock
    <3>4. QED
      BY <2>2, <2>4, <3>3
  <2> HIDE DEF G
  <2>5. 0 \in Q
    BY <1>0
  <2>6. \A k \in Nat : k \in Q => k + 1 \in Q
    <3> TAKE k \in Nat
    <3> HAVE k \in Q
    <3>1. k = 0 => G(k + 1)
      BY <2>3
    <3>2. k # 0 /\ k + 1 \in 1..n => G(k + 1)
      BY <1>0, <2>4
    <3>3. QED
      BY <3>1, <3>2
  <2> HIDE DEF Q
  <2>7. n \in Q
    BY <1>0, <2>5, <2>6, NatSetInduction
  <2>8. G(n)
    BY <1>0, <1>2, <2>7 DEF Q
  <2>9. QED
    BY <2>1, <2>8 DEF G
<1>3. QED
  BY <1>0, <1>1, <1>2

\* g goes through the whole set in order.
IsListing(g, S, R) ==
  /\ g \in [1..Cardinality(S) -> S]
  /\ \A x \in S : \E p \in 1..Cardinality(S) : g[p] = x
  /\ \A p, q \in 1..Cardinality(S) : p < q => <<g[p], g[q]>> \in R

(* A set has one listing.                                                  *)
LEMMA OneListing ==
  ASSUME NEW S, IsFiniteSet(S), NEW R, Orders(R, S), NEW g, IsListing(g, S, R)
  PROVE  g = Listed(S, R)
<1> DEFINE N == Cardinality(S)
           s == Listed(S, R)
<1> USE DEF IsListing
<1>1. N \in Nat
  BY FS_CardinalityType
<1>2. \A p, q \in 1..N : <<g[p], g[q]>> \in R => p < q
  <2> SUFFICES ASSUME NEW p \in 1..N, NEW q \in 1..N, <<g[p], g[q]>> \in R PROVE p < q
    OBVIOUS
  <2>1. p # q
    BY DEF Orders
  <2>2. ~ (q < p)
    BY DEF Orders
  <2>3. QED
    BY <1>1, <2>1, <2>2
<1>3. ASSUME NEW p \in 1..N
      PROVE  Cardinality(Below(S, R, g[p])) = p - 1
  <2> DEFINE h == [i \in 1..(p - 1) |-> g[i]]
             U == Below(S, R, g[p])
  <2>1. \A i \in 1..(p - 1) : i \in 1..N /\ i < p
    BY <1>1
  <2>2. h \in [1..(p - 1) -> U]
    BY <2>1 DEF Below
  <2>3. \A i, j \in 1..(p - 1) : h[i] = h[j] => i = j
    <3> SUFFICES ASSUME NEW i \in 1..(p - 1), NEW j \in 1..(p - 1), i # j
                 PROVE  h[i] # h[j]
      OBVIOUS
    <3>1. i < j \/ j < i
      BY <1>1
    <3>2. <<g[i], g[j]>> \in R \/ <<g[j], g[i]>> \in R
      BY <2>1, <3>1
    <3>3. QED
      BY <2>1, <3>2 DEF Orders
  <2>4. \A x \in U : \E i \in 1..(p - 1) : h[i] = x
    <3> TAKE x \in U
    <3>1. x \in S /\ <<x, g[p]>> \in R
      BY DEF Below
    <3>2. PICK i \in 1..N : g[i] = x
      BY <3>1
    <3>3. i < p
      BY <1>2, <3>1, <3>2
    <3>4. i \in 1..(p - 1)
      BY <1>1, <3>3
    <3>5. QED
      BY <3>2, <3>4
  <2>5. h \in Bijection(1..(p - 1), U)
    BY <2>2, <2>3, <2>4 DEF Bijection, Injection, Surjection, IsInjective
  <2>6. IsFiniteSet(1..(p - 1)) /\ Cardinality(1..(p - 1)) = p - 1
    <3>1. p - 1 \in Int /\ p - 1 >= 0 /\ 1 \in Int
      BY <1>1
    <3>2. IsFiniteSet(1..(p - 1))
          /\ Cardinality(1..(p - 1)) = IF 1 > p - 1 THEN 0 ELSE (p - 1) - 1 + 1
      BY <3>1, FS_Interval
    <3>3. QED
      BY <3>1, <3>2
  <2>7. ExistsBijection(1..(p - 1), U)
    BY <2>5 DEF ExistsBijection
  <2>8. QED
    BY <2>6, <2>7, FS_Bijection
<1>4. ASSUME NEW p \in 1..N
      PROVE  Cardinality(Below(S, R, s[p])) = p - 1 /\ s[p] \in S
  <2> DEFINE chosen(q) == CHOOSE x \in S : Cardinality(Below(S, R, x)) = q - 1
             t == [q \in 1..N |-> chosen(q)]
  <2>1. s = t
    BY DEF Listed, Below
  <2>2. chosen(p) \in S /\ Cardinality(Below(S, R, chosen(p))) = p - 1
    BY OnePerPlace
  <2> HIDE DEF chosen
  <2>3. t[p] = chosen(p)
    OBVIOUS
  <2>4. QED
    BY <2>1, <2>2, <2>3
<1>5. \A p \in 1..N : s[p] = g[p]
  BY <1>3, <1>4, OnePerPlace
<1>6. s \in [1..N -> S]
  BY ListedInOrder
<1> HIDE DEF s
<1>7. g = s
  <2>1. g = [p \in 1..N |-> g[p]] /\ s = [p \in 1..N |-> s[p]]
    BY <1>6
  <2>2. QED
    BY <1>5, <2>1
<1>8. QED
  BY <1>7 DEF s

(* What is in a list of lists is in one of them.                           *)
LEMMA FlattenHolds ==
  ASSUME NEW T, NEW ss \in Seq(Seq(T))
  PROVE  /\ FlattenSeq(ss) \in Seq(T)
         /\ \A x : x \in Range(FlattenSeq(ss)) <=> \E i \in DOMAIN ss : x \in Range(ss[i])
<1> DEFINE F == FlattenSeq(ss)
           n == Len(ss)
<1>1. F \in Seq(T) /\ n \in Nat /\ DOMAIN ss = 1..n
  BY FlattenPlaces
<1>2. PICK blk, pos : Placed(F, ss, n, blk, pos)
  BY FlattenPlaces
<1> HIDE DEF F, n
<1>3. \A i \in 1..n : ss[i] \in Seq(T) /\ DOMAIN ss[i] = 1..Len(ss[i])
  BY <1>1
<1>4. DOMAIN F = 1..Len(F)
  BY <1>1
<1>5. ASSUME NEW m \in DOMAIN F PROVE \E i \in DOMAIN ss : F[m] \in Range(ss[i])
  <2>1. blk[m] \in 1..n /\ pos[m] \in 1..Len(ss[blk[m]]) /\ F[m] = ss[blk[m]][pos[m]]
    BY <1>2, <1>4 DEF Placed
  <2>2. F[m] \in Range(ss[blk[m]])
    BY <1>3, <2>1 DEF Range
  <2>3. QED
    BY <1>1, <2>1, <2>2
<1>6. ASSUME NEW i \in DOMAIN ss, NEW q \in DOMAIN ss[i] PROVE ss[i][q] \in Range(F)
  <2>1. i \in 1..n /\ q \in 1..Len(ss[i])
    BY <1>1, <1>3
  <2>2. PICK m \in 1..Len(F) : blk[m] = i /\ pos[m] = q
    BY <1>2, <2>1 DEF Placed
  <2>3. F[m] = ss[i][q]
    BY <1>2, <2>2 DEF Placed
  <2>4. QED
    BY <1>4, <2>2, <2>3 DEF Range
<1>7. \A x : x \in Range(F) <=> \E m \in DOMAIN F : F[m] = x
  BY DEF Range
<1>8. \A i \in DOMAIN ss : \A x : x \in Range(ss[i]) <=> \E q \in DOMAIN ss[i] : ss[i][q] = x
  BY DEF Range
<1>9. \A x : x \in Range(F) <=> \E i \in DOMAIN ss : x \in Range(ss[i])
  BY <1>5, <1>6, <1>7, <1>8
<1>10. QED
  BY <1>1, <1>9 DEF F

(* A sequence is one of its own elements.                                   *)
LEMMA RangeSeq ==
  ASSUME NEW T, NEW s \in Seq(T)
  PROVE  s \in Seq(Range(s))
<1>1. DOMAIN s = 1..Len(s) /\ Len(s) \in Nat /\ \A i \in DOMAIN s : s[i] \in Range(s)
  BY DEF Range
<1>2. QED
  BY <1>1

-----------------------------------------------------------------------------
(* Names, keys and items in order.                                         *)

(* A name has a rank, and the rank leads back to it.                       *)
LEMMA RankRight ==
  ASSUME NEW order, order \in Seq(Range(order)), NEW x \in Range(order)
  PROVE  Rank(order, x) \in 1..Len(order) /\ order[Rank(order, x)] = x
<1>1. DOMAIN order = 1..Len(order)
  OBVIOUS
<1>2. \E i \in DOMAIN order : order[i] = x
  BY DEF Range
<1>3. QED
  BY <1>1, <1>2 DEF Rank

(* Any set of names is finite and ordered by their ranks.                  *)
LEMMA NamesOrdered ==
  ASSUME NEW S \in SUBSET Range(FieldOrder)
  PROVE  IsFiniteSet(S) /\ Orders(NameOrder, S)
<1>1. FieldOrder \in Seq(Range(FieldOrder))
  BY OrderAssumption DEF OrderAssumption
<1>2. \A x \in S : /\ x \in Range(FieldOrder) /\ Rank(FieldOrder, x) \in Int
                   /\ FieldOrder[Rank(FieldOrder, x)] = x
  BY <1>1, RankRight
<1>3. Orders(NameOrder, S)
  <2>1. \A x, y \in S : <<x, y>> \in NameOrder <=> Rank(FieldOrder, x) < Rank(FieldOrder, y)
    BY <1>2 DEF NameOrder
  <2>2. \A x, y \in S : Rank(FieldOrder, x) = Rank(FieldOrder, y) => x = y
    BY <1>2
  <2>3. QED
    BY <1>2, <2>1, <2>2 DEF Orders
<1>4. IsFiniteSet(Range(FieldOrder))
  <2>1. FieldOrder \in [1..Len(FieldOrder) -> Range(FieldOrder)] /\ Len(FieldOrder) \in Nat
    BY <1>1
  <2>2. FieldOrder \in Surjection(1..Len(FieldOrder), Range(FieldOrder))
    BY <2>1 DEF Surjection, Range
  <2>3. IsFiniteSet(1..Len(FieldOrder))
    BY <2>1, FS_Interval
  <2>4. QED
    BY <2>2, <2>3, FS_Surjection
<1>5. QED
  BY <1>3, <1>4, FS_Subset

\* s holds every element of S once, and nothing else.
Enumerates(s, S) == s \in Seq(S) /\ Range(s) = S /\ IsInjective(s)

(* sortedKeys returns each name once.                                      *)
LEMMA KeysSorted ==
  ASSUME NEW S \in SUBSET Range(FieldOrder)
  PROVE  Enumerates(sortedKeys(S), S)
BY NamesOrdered, ListedInOrder DEF sortedKeys, Enumerates

\* What the sort can compare.
Sortable(x) == x.key \in Keys /\ x.field \in Range(FieldOrder)

KeyRank(x) == Rank(KeyOrder, x.key)
FieldRank(x) == Rank(FieldOrder, x.field)

(* ItemLess compares two numbers, lexicographically.                       *)
LEMMA ItemRanks ==
  ASSUME NEW x, Sortable(x), NEW y, Sortable(y)
  PROVE  /\ KeyRank(x) \in Int /\ FieldRank(x) \in Int
         /\ KeyRank(x) = KeyRank(y) <=> x.key = y.key
         /\ FieldRank(x) = FieldRank(y) <=> x.field = y.field
         /\ ItemLess(x, y) <=> \/ KeyRank(x) < KeyRank(y)
                               \/ KeyRank(x) = KeyRank(y) /\ FieldRank(x) < FieldRank(y)
<1>1. FieldOrder \in Seq(Range(FieldOrder)) /\ KeyOrder \in Seq(Range(KeyOrder))
  BY OrderAssumption DEF OrderAssumption
<1>2. \A k \in Keys : Rank(KeyOrder, k) \in Int /\ KeyOrder[Rank(KeyOrder, k)] = k
  BY <1>1, RankRight DEF Keys
<1>3. \A f \in Range(FieldOrder) : Rank(FieldOrder, f) \in Int /\ FieldOrder[Rank(FieldOrder, f)] = f
  BY <1>1, RankRight
<1>4. x.key \in Keys /\ y.key \in Keys /\ x.field \in Range(FieldOrder) /\ y.field \in Range(FieldOrder)
  BY DEF Sortable
<1>5. QED
  BY <1>2, <1>3, <1>4 DEF ItemLess, KeyRank, FieldRank

(* The positions of a list of items are ordered by the stable sort.        *)
LEMMA PositionsOrdered ==
  ASSUME NEW T, \A x \in T : Sortable(x), NEW items \in Seq(T)
  PROVE  /\ IsFiniteSet(DOMAIN items) /\ Cardinality(DOMAIN items) = Len(items)
         /\ DOMAIN items = 1..Len(items) /\ Len(items) \in Nat
         /\ \A i, j \in DOMAIN items :
              <<i, j>> \in SortOrder(items) <=>
                \/ ItemLess(items[i], items[j])
                \/ ~ItemLess(items[j], items[i]) /\ i < j
         /\ Orders(SortOrder(items), DOMAIN items)
<1> DEFINE K == [i \in DOMAIN items |-> KeyRank(items[i])]
           F == [i \in DOMAIN items |-> FieldRank(items[i])]
<1>1. DOMAIN items = 1..Len(items) /\ Len(items) \in Nat
  OBVIOUS
<1>2. IsFiniteSet(DOMAIN items) /\ Cardinality(DOMAIN items) = Len(items)
  BY <1>1, FS_Interval
<1>3. \A i, j \in DOMAIN items :
        <<i, j>> \in SortOrder(items) <=>
          \/ ItemLess(items[i], items[j])
          \/ ~ItemLess(items[j], items[i]) /\ i < j
  BY DEF SortOrder
<1>4. \A i, j \in DOMAIN items :
        /\ K[i] \in Int /\ F[i] \in Int
        /\ ItemLess(items[i], items[j]) <=> K[i] < K[j] \/ (K[i] = K[j] /\ F[i] < F[j])
  <2> TAKE i, j \in DOMAIN items
  <2>1. Sortable(items[i]) /\ Sortable(items[j])
    BY <1>1
  <2>2. QED
    BY <2>1, ItemRanks
<1> HIDE DEF K, F
<1>5. \A i, j \in DOMAIN items :
        <<i, j>> \in SortOrder(items) <=>
          \/ K[i] < K[j]
          \/ K[i] = K[j] /\ F[i] < F[j]
          \/ K[i] = K[j] /\ F[i] = F[j] /\ i < j
  <2> TAKE i, j \in DOMAIN items
  <2>1. /\ K[i] \in Int /\ F[i] \in Int /\ K[j] \in Int /\ F[j] \in Int
        /\ ItemLess(items[i], items[j]) <=> K[i] < K[j] \/ (K[i] = K[j] /\ F[i] < F[j])
        /\ ItemLess(items[j], items[i]) <=> K[j] < K[i] \/ (K[j] = K[i] /\ F[j] < F[i])
    BY <1>4
  <2>2. <<i, j>> \in SortOrder(items) <=>
          \/ ItemLess(items[i], items[j])
          \/ ~ItemLess(items[j], items[i]) /\ i < j
    BY <1>3
  <2>3. QED
    BY <2>1, <2>2
<1>6. Orders(SortOrder(items), DOMAIN items)
  <2>1. \A i \in DOMAIN items : i \in Int /\ K[i] \in Int /\ F[i] \in Int
    BY <1>1, <1>4
  <2>2. QED
    BY <1>5, <2>1 DEF Orders
<1>7. QED
  BY <1>1, <1>2, <1>3, <1>6

(* Sorting rearranges the items, and leaves them in order.                 *)
LEMMA SortRearranges ==
  ASSUME NEW T, \A x \in T : Sortable(x), NEW items \in Seq(T)
  PROVE  \E order \in Bijection(1..Len(items), 1..Len(items)) :
           /\ order = Listed(DOMAIN items, SortOrder(items))
           /\ StableSort(items) = [p \in 1..Len(items) |-> items[order[p]]]
           /\ StableSort(items) \in Seq(T) /\ Len(StableSort(items)) = Len(items)
           /\ \A p, q \in 1..Len(items) :
                p < q <=> <<order[p], order[q]>> \in SortOrder(items)
<1> DEFINE N == Len(items)
           order == Listed(DOMAIN items, SortOrder(items))
<1>1. /\ IsFiniteSet(DOMAIN items) /\ Cardinality(DOMAIN items) = N /\ DOMAIN items = 1..N
      /\ N \in Nat /\ Orders(SortOrder(items), DOMAIN items)
  BY PositionsOrdered
<1>2. /\ order \in [1..N -> 1..N] /\ DOMAIN order = 1..N /\ IsInjective(order)
      /\ Range(order) = 1..N
      /\ \A p, q \in 1..N : p < q <=> <<order[p], order[q]>> \in SortOrder(items)
  BY <1>1, ListedInOrder
<1>3. StableSort(items) = [p \in 1..N |-> items[order[p]]]
  BY <1>2 DEF StableSort
<1> HIDE DEF order
<1>4. order \in Bijection(1..N, 1..N)
  BY <1>2 DEF Bijection, Injection, Surjection, Range
<1>5. StableSort(items) \in Seq(T) /\ Len(StableSort(items)) = N
  BY <1>1, <1>2, <1>3
<1>6. QED
  BY <1>2, <1>3, <1>4, <1>5 DEF order

(* After sorting no item is less than one before it; none is lost.         *)
LEMMA SortSorts ==
  ASSUME NEW T, \A x \in T : Sortable(x), NEW items \in Seq(T)
  PROVE  SortedItems(StableSort(items)) /\ Range(StableSort(items)) = Range(items)
<1> DEFINE N == Len(items)
           s == StableSort(items)
<1>1. PICK order \in Bijection(1..N, 1..N) :
        /\ s = [p \in 1..N |-> items[order[p]]]
        /\ \A p, q \in 1..N : p < q <=> <<order[p], order[q]>> \in SortOrder(items)
  BY SortRearranges
<1>2. /\ DOMAIN items = 1..N /\ N \in Nat
      /\ \A i, j \in 1..N :
           <<i, j>> \in SortOrder(items) <=>
             \/ ItemLess(items[i], items[j])
             \/ ~ItemLess(items[j], items[i]) /\ i < j
  BY PositionsOrdered
<1>3. \A p \in 1..N : order[p] \in 1..N
  BY DEF Bijection, Injection
<1>4. \A i \in 1..N : \E p \in 1..N : order[p] = i
  BY DEF Bijection, Surjection
<1> HIDE DEF s
<1>5. ASSUME NEW p \in 1..N, NEW q \in 1..N, p < q
      PROVE  ~ItemLess(s[q], s[p])
  <2>1. /\ items[order[p]] \in T /\ items[order[q]] \in T
        /\ s[p] = items[order[p]] /\ s[q] = items[order[q]]
    BY <1>1, <1>2, <1>3
  <2>2. Sortable(s[p]) /\ Sortable(s[q])
    BY <2>1
  <2>3. ItemLess(s[p], s[q]) \/ ~ItemLess(s[q], s[p])
    BY <1>1, <1>2, <1>3, <1>5, <2>1
  <2>4. QED
    BY <2>2, <2>3, ItemRanks
<1>6. SortedItems(s)
  BY <1>1, <1>5 DEF SortedItems
<1>7. Range(s) = Range(items)
  BY <1>1, <1>2, <1>3, <1>4 DEF Range
<1>8. QED
  BY <1>6, <1>7 DEF s

(* Two lists that hold the same items, equal items in the same order, are  *)
(* sorted alike.                                                           *)
LEMMA SortedAlike ==
  ASSUME NEW T, \A x \in T : Sortable(x), NEW items \in Seq(T), NEW other \in Seq(T),
         NEW b \in Bijection(DOMAIN items, DOMAIN other),
         \A i \in DOMAIN items : items[i] = other[b[i]],
         \A i, j \in DOMAIN items :
           <<i, j>> \in SortOrder(items) => <<b[i], b[j]>> \in SortOrder(other)
  PROVE  StableSort(items) = StableSort(other)
<1> DEFINE N == Len(items)
           R == SortOrder(other)
<1>1. /\ IsFiniteSet(DOMAIN items) /\ Cardinality(DOMAIN items) = N
      /\ DOMAIN items = 1..N /\ N \in Nat
  BY PositionsOrdered
<1>2. /\ IsFiniteSet(DOMAIN other) /\ Cardinality(DOMAIN other) = Len(other)
      /\ DOMAIN other = 1..Len(other) /\ Orders(R, DOMAIN other)
  BY PositionsOrdered
<1>3. Len(other) = N
  <2>1. ExistsBijection(DOMAIN items, DOMAIN other)
    BY DEF ExistsBijection
  <2>2. QED
    BY <1>1, <1>2, <2>1, FS_Bijection
<1>4. PICK order \in Bijection(1..N, 1..N) :
        /\ order = Listed(DOMAIN items, SortOrder(items))
        /\ StableSort(items) = [p \in 1..N |-> items[order[p]]]
        /\ \A p, q \in 1..N : p < q <=> <<order[p], order[q]>> \in SortOrder(items)
  BY SortRearranges
<1>5. PICK there \in Bijection(1..N, 1..N) :
        /\ there = Listed(DOMAIN other, R)
        /\ StableSort(other) = [p \in 1..N |-> other[there[p]]]
  BY <1>3, SortRearranges
<1> DEFINE g == [p \in 1..N |-> b[order[p]]]
<1>6. /\ \A p \in 1..N : order[p] \in DOMAIN items /\ b[order[p]] \in DOMAIN other
      /\ \A i \in DOMAIN items : \E p \in 1..N : order[p] = i
      /\ \A k \in DOMAIN other : \E i \in DOMAIN items : b[i] = k
  BY <1>1 DEF Bijection, Injection, Surjection
<1>7. g \in [1..N -> DOMAIN other]
  BY <1>6
<1>8. ASSUME NEW k \in DOMAIN other PROVE \E p \in 1..N : g[p] = k
  <2>1. PICK i \in DOMAIN items : b[i] = k
    BY <1>6
  <2>2. PICK p \in 1..N : order[p] = i
    BY <1>6
  <2>3. g[p] = k
    BY <2>1, <2>2
  <2>4. QED
    BY <2>3
<1>9. \A p, q \in 1..N : p < q => <<g[p], g[q]>> \in R
  BY <1>4, <1>6
<1>10. g = there
  <2> HIDE DEF g, R
  <2>1. Cardinality(DOMAIN other) = N
    BY <1>2, <1>3
  <2>2. g = Listed(DOMAIN other, R)
    <3>1. IsListing(g, DOMAIN other, R)
      BY <1>7, <1>8, <1>9, <2>1 DEF IsListing
    <3>2. IsFiniteSet(DOMAIN other) /\ Orders(R, DOMAIN other)
      BY <1>2 DEF R
    <3>3. QED
      BY <3>1, <3>2, OneListing
  <2>3. QED
    BY <1>5, <2>2
<1>11. \A p \in 1..N : items[order[p]] = other[there[p]]
  <2>1. \A p \in 1..N : g[p] = b[order[p]]
    OBVIOUS
  <2>2. QED
    BY <1>6, <1>10, <2>1
<1>12. QED
  BY <1>4, <1>5, <1>11

(* Counting is the same on both sides of a bijection.                      *)
LEMMA CountedAlike ==
  ASSUME NEW D, IsFiniteSet(D), NEW E, NEW b \in Bijection(D, E),
         NEW P \in SUBSET D, NEW Q \in SUBSET E, \A d \in D : d \in P <=> b[d] \in Q
  PROVE  Cardinality(P) = Cardinality(Q)
<1> DEFINE c == [d \in P |-> b[d]]
<1>1. /\ \A d \in D : b[d] \in E
      /\ \A d, e \in D : b[d] = b[e] => d = e
      /\ \A x \in E : \E d \in D : b[d] = x
  BY DEF Bijection, Injection, Surjection, IsInjective
<1>2. c \in [P -> Q] /\ \A d, e \in P : c[d] = c[e] => d = e
  BY <1>1
<1>3. \A x \in Q : \E d \in P : c[d] = x
  BY <1>1
<1>4. c \in Bijection(P, Q)
  BY <1>2, <1>3 DEF Bijection, Injection, Surjection, IsInjective
<1>5. ExistsBijection(P, Q)
  BY <1>4 DEF ExistsBijection
<1>6. IsFiniteSet(P)
  BY FS_Subset
<1>7. QED
  BY <1>5, <1>6, FS_Bijection

(* A list over a set is a list over any larger one.                        *)
LEMMA SeqOfMore ==
  ASSUME NEW S, NEW T, S \subseteq T, NEW s \in Seq(S)
  PROVE  s \in Seq(T)
OBVIOUS

(* Two lists with nothing in common, one after the other.                  *)
LEMMA JoinedApart ==
  ASSUME NEW S, NEW T, NEW s, NEW t, Enumerates(s, S), Enumerates(t, T), S \cap T = {}
  PROVE  Enumerates(s \o t, S \cup T)
<1> DEFINE u == s \o t
           m == Len(s)
           n == Len(t)
<1>1. DOMAIN s = 1..m /\ DOMAIN t = 1..n /\ m \in Nat /\ n \in Nat
  BY DEF Enumerates
<1>2. u \in Seq(S \cup T) /\ Len(u) = m + n /\ DOMAIN u = 1..(m + n)
  <2>1. s \in Seq(S \cup T) /\ t \in Seq(S \cup T)
    BY SeqOfMore DEF Enumerates
  <2>2. QED
    BY <1>1, <2>1
<1>3. \A i \in 1..m : u[i] = s[i] /\ s[i] \in S /\ i \in 1..(m + n)
  BY <1>1 DEF Enumerates
<1>4. \A i \in 1..(m + n) : i \notin 1..m =>
         i - m \in 1..n /\ u[i] = t[i - m] /\ t[i - m] \in T
  BY <1>1 DEF Enumerates
<1>5. \A i \in 1..n : i + m \in 1..(m + n) /\ i + m \notin 1..m /\ (i + m) - m = i
  BY <1>1
<1> HIDE DEF u
<1>6. Range(u) = S \cup T
  <2>1. \A i \in 1..(m + n) : u[i] \in S \cup T
    BY <1>3, <1>4
  <2>2. ASSUME NEW x \in S PROVE \E i \in 1..(m + n) : u[i] = x
    <3>1. PICK i \in 1..m : s[i] = x
      BY <1>1 DEF Enumerates, Range
    <3>2. QED
      BY <1>3, <3>1
  <2>3. ASSUME NEW x \in T PROVE \E i \in 1..(m + n) : u[i] = x
    <3>1. PICK i \in 1..n : t[i] = x
      BY <1>1 DEF Enumerates, Range
    <3>2. u[i + m] = x
      BY <1>4, <1>5, <3>1
    <3>3. QED
      BY <1>5, <3>2
  <2>4. Range(u) = {u[i] : i \in 1..(m + n)}
    BY <1>2 DEF Range
  <2>5. QED
    BY <2>1, <2>2, <2>3, <2>4
<1>7. IsInjective(u)
  <2> SUFFICES ASSUME NEW i \in 1..(m + n), NEW j \in 1..(m + n), u[i] = u[j] PROVE i = j
    BY <1>2 DEF IsInjective
  <2>1. CASE i \in 1..m /\ j \in 1..m
    BY <1>1, <1>3, <2>1 DEF Enumerates, IsInjective
  <2>2. CASE i \notin 1..m /\ j \notin 1..m
    <3>1. i - m = j - m
      BY <1>1, <1>4, <2>2 DEF Enumerates, IsInjective
    <3>2. QED
      BY <1>1, <3>1
  <2>3. CASE i \in 1..m /\ j \notin 1..m
    BY <1>3, <1>4, <2>3
  <2>4. CASE i \notin 1..m /\ j \in 1..m
    BY <1>3, <1>4, <2>4
  <2>5. QED
    BY <2>1, <2>2, <2>3, <2>4
<1>8. QED
  BY <1>2, <1>6, <1>7 DEF u, Enumerates

(* One item per element, none twice.                                       *)
LEMMA MappedOnce ==
  ASSUME NEW h, NEW ks, Enumerates(ks, DOMAIN h), IsInjective(h)
  PROVE  Enumerates([i \in DOMAIN ks |-> h[ks[i]]], Range(h))
<1> DEFINE S == DOMAIN h
           s == [i \in DOMAIN ks |-> h[ks[i]]]
<1>1. DOMAIN ks = 1..Len(ks) /\ Len(ks) \in Nat /\ \A i \in 1..Len(ks) : ks[i] \in S
  BY DEF Enumerates
<1>2. /\ DOMAIN s = 1..Len(ks) /\ s = [i \in 1..Len(ks) |-> s[i]]
      /\ \A i \in 1..Len(ks) : s[i] = h[ks[i]] /\ s[i] \in Range(h)
  BY <1>1 DEF Range
<1> HIDE DEF s
<1>3. s \in Seq(Range(h))
  <2>1. s \in [1..Len(ks) -> Range(h)]
    BY <1>2
  <2>2. QED
    BY <1>1, <2>1
<1>4. Range(s) = Range(h)
  <2>1. ASSUME NEW x \in S PROVE \E i \in 1..Len(ks) : s[i] = h[x]
    <3>1. PICK i \in 1..Len(ks) : ks[i] = x
      BY <1>1 DEF Enumerates, Range
    <3>2. QED
      BY <1>2, <3>1
  <2>2. QED
    BY <1>2, <2>1 DEF Range
<1>5. IsInjective(s)
  BY <1>1, <1>2 DEF IsInjective, Enumerates
<1>6. QED
  BY <1>3, <1>4, <1>5 DEF s, Enumerates

-----------------------------------------------------------------------------
(* What a comparison reports.                                              *)

\* The names of both sides are in FieldOrder.
NamesKnown(e, a) ==
  /\ DOMAIN e.attributes \subseteq Fields
  /\ DOMAIN e.tags \subseteq Fields /\ DOMAIN a.tags \subseteq Fields

DriftedAttributes(e, a) == {k \in DOMAIN e.attributes : AttributeDrifted(e, a, k)}
LostTags(e, a) == {k \in DOMAIN e.tags : TagDrifted(e, a, k)}
AddedTags(e, a) == (DOMAIN a.tags) \ (DOMAIN e.tags)

AttributeItem(e, a, k) ==
  item(e, "modified", k, e.attributes[k], ValueOf(a.attributes, k))
TagItem(e, a, k) == item(e, "tag", k, ValueOf(e.tags, k), ValueOf(a.tags, k))
DeletedItem(e) == item(e, "deleted", NoValue, NoValue, NoValue)

AttributeItems(e, a) == {AttributeItem(e, a, k) : k \in DriftedAttributes(e, a)}
TagItems(e, a) == {TagItem(e, a, k) : k \in LostTags(e, a) \cup AddedTags(e, a)}

(* compareAttributes reports each drifted attribute once.                  *)
LEMMA AttributesReported ==
  ASSUME NEW e, NEW a, NamesKnown(e, a)
  PROVE  Enumerates(compareAttributes(e, a), AttributeItems(e, a))
<1> DEFINE D == DriftedAttributes(e, a)
           ks == sortedKeys(D)
           h == [k \in D |-> AttributeItem(e, a, k)]
<1>1. D \in SUBSET Range(FieldOrder)
  BY DEF DriftedAttributes, NamesKnown, Fields
<1>2. Enumerates(ks, D)
  BY <1>1, KeysSorted
<1>3. compareAttributes(e, a) = [i \in DOMAIN ks |-> AttributeItem(e, a, ks[i])]
  BY DEF compareAttributes, MapSeq, AttributeItem, DriftedAttributes
<1> HIDE DEF ks
<1>4. compareAttributes(e, a) = [i \in DOMAIN ks |-> h[ks[i]]]
  <2>1. \A i \in DOMAIN ks : ks[i] \in D
    BY <1>2 DEF Enumerates
  <2>2. QED
    BY <1>3, <2>1
<1>5. IsInjective(h) /\ DOMAIN h = D /\ Range(h) = AttributeItems(e, a)
  BY DEF AttributeItem, item, IsInjective, Range, AttributeItems
<1> HIDE DEF h
<1>6. Enumerates([i \in DOMAIN ks |-> h[ks[i]]], Range(h))
  BY <1>2, <1>5, MappedOnce
<1>7. QED
  BY <1>4, <1>5, <1>6

(* compareTags reports each lost, changed or added tag once.               *)
LEMMA TagsReported ==
  ASSUME NEW e, NEW a, NamesKnown(e, a)
  PROVE  Enumerates(compareTags(e, a), TagItems(e, a))
<1> DEFINE L == LostTags(e, a)
           A == AddedTags(e, a)
           D == L \cup A
           ks == sortedKeys(L) \o sortedKeys(A)
           h == [k \in D |-> TagItem(e, a, k)]
<1>1. L \in SUBSET Range(FieldOrder) /\ A \in SUBSET Range(FieldOrder) /\ L \cap A = {}
  BY DEF LostTags, AddedTags, NamesKnown, Fields
<1>2. Enumerates(ks, D)
  <2> HIDE DEF L, A
  <2>1. Enumerates(sortedKeys(L), L) /\ Enumerates(sortedKeys(A), A)
    BY <1>1, KeysSorted
  <2>2. QED
    BY <1>1, <2>1, JoinedApart
<1>3. compareTags(e, a) = [i \in DOMAIN ks |-> TagItem(e, a, ks[i])]
  BY DEF compareTags, MapSeq, TagItem, LostTags, AddedTags
<1> HIDE DEF ks
<1>4. compareTags(e, a) = [i \in DOMAIN ks |-> h[ks[i]]]
  <2>1. \A i \in DOMAIN ks : ks[i] \in D
    BY <1>2 DEF Enumerates
  <2>2. QED
    BY <1>3, <2>1
<1>5. IsInjective(h) /\ DOMAIN h = D /\ Range(h) = TagItems(e, a)
  BY DEF TagItem, item, IsInjective, Range, TagItems
<1> HIDE DEF h
<1>6. Enumerates([i \in DOMAIN ks |-> h[ks[i]]], Range(h))
  BY <1>2, <1>5, MappedOnce
<1>7. QED
  BY <1>4, <1>5, <1>6

\* The findings of a comparison, as a set.
ItemsOf(e, a) == AttributeItems(e, a) \cup TagItems(e, a)

(* Comparing two resources reports each drifted field once, and no other.  *)
LEMMA CompareFound ==
  ASSUME NEW e, NEW a, NamesKnown(e, a)
  PROVE  Enumerates(Compare(e, a, TRUE), ItemsOf(e, a))
<1>1. Compare(e, a, TRUE) = compareAttributes(e, a) \o compareTags(e, a)
  BY DEF Compare
<1>2. AttributeItems(e, a) \cap TagItems(e, a) = {}
  <2>1. \A x \in AttributeItems(e, a) : x.kind = "modified"
    BY DEF AttributeItems, AttributeItem, item
  <2>2. \A x \in TagItems(e, a) : x.kind = "tag"
    BY DEF TagItems, TagItem, item
  <2>3. QED
    BY <2>1, <2>2
<1>3. Enumerates(compareAttributes(e, a) \o compareTags(e, a), ItemsOf(e, a))
  BY <1>2, AttributesReported, TagsReported, JoinedApart DEF ItemsOf
<1>4. QED
  BY <1>1, <1>3

(* A missing resource is one finding.                                      *)
LEMMA CompareMissing ==
  ASSUME NEW e, NEW a
  PROVE  Compare(e, a, FALSE) = <<DeletedItem(e)>>
BY DEF Compare, DeletedItem

\* Everything a comparison may report.
MayReport(e, a) == ItemsOf(e, a) \cup {DeletedItem(e)}

(* What is reported is about the expected resource and can be sorted.      *)
LEMMA ReportedItems ==
  ASSUME NEW e, NEW a, NamesKnown(e, a), NEW x \in MayReport(e, a)
  PROVE  /\ x.key = e.key /\ x.field \in Range(FieldOrder)
         /\ x \in AttributeItems(e, a) => x.kind = "modified" /\ x.field \in Fields
         /\ x \in TagItems(e, a) => x.kind = "tag" /\ x.field \in Fields
         /\ x = DeletedItem(e) => x.kind = "deleted" /\ x.field = NoValue
<1>1. ASSUME x \in AttributeItems(e, a)
      PROVE  x.key = e.key /\ x.kind = "modified" /\ x.field \in Fields
  BY <1>1 DEF AttributeItems, AttributeItem, item, DriftedAttributes, NamesKnown
<1>2. ASSUME x \in TagItems(e, a)
      PROVE  x.key = e.key /\ x.kind = "tag" /\ x.field \in Fields
  BY <1>2 DEF TagItems, TagItem, item, LostTags, AddedTags, NamesKnown
<1>3. ASSUME x = DeletedItem(e)
      PROVE  x.key = e.key /\ x.kind = "deleted" /\ x.field = NoValue
  BY <1>3 DEF DeletedItem, item
<1>4. NoValue \in Range(FieldOrder)
  <2>1. 1 \in DOMAIN FieldOrder /\ FieldOrder[1] = NoValue
    BY OrderAssumption DEF OrderAssumption
  <2>2. QED
    BY <2>1 DEF Range
<1>5. Fields \subseteq Range(FieldOrder)
  BY DEF Fields
<1>6. QED
  BY <1>1, <1>2, <1>3, <1>4, <1>5 DEF MayReport, ItemsOf

(* Whatever a comparison returns can be sorted.                            *)
LEMMA CompareSortable ==
  ASSUME NEW e, NEW a, NamesKnown(e, a), e.key \in Keys, NEW found \in BOOLEAN
  PROVE  /\ Compare(e, a, found) \in Seq(MayReport(e, a))
         /\ \A x \in MayReport(e, a) : Sortable(x) /\ x.key = e.key
<1>1. \A x \in MayReport(e, a) : Sortable(x) /\ x.key = e.key
  BY ReportedItems DEF Sortable
<1>2. Compare(e, a, TRUE) \in Seq(MayReport(e, a))
  <2>1. ItemsOf(e, a) \subseteq MayReport(e, a)
    BY DEF MayReport
  <2>2. QED
    BY <2>1, CompareFound, SeqOfMore DEF Enumerates
<1>3. Compare(e, a, FALSE) \in Seq(MayReport(e, a))
  <2>1. DeletedItem(e) \in MayReport(e, a)
    BY DEF MayReport
  <2>2. <<DeletedItem(e)>> \in Seq(MayReport(e, a))
    BY <2>1
  <2>3. QED
    BY <2>2, CompareMissing
<1>4. QED
  BY <1>1, <1>2, <1>3

-----------------------------------------------------------------------------
(* The findings of several comparisons in one list.                        *)

\* The places of all findings: f[j] are the findings of j.
PlacesOf(J, f) == UNION {{j} \X DOMAIN f[j] : j \in J}

\* The list holds every finding once; those of one comparison keep their order.
Gathered(its, J, f, at) ==
  /\ at \in Bijection(DOMAIN its, PlacesOf(J, f))
  /\ \A m \in DOMAIN its : its[m] = f[at[m][1]][at[m][2]]
  /\ \A l, m \in DOMAIN its : l < m /\ at[l][1] = at[m][1] => at[l][2] < at[m][2]

(* Whatever order the comparisons are taken in, flattening their findings  *)
(* gathers them all, if no comparison with findings is left out.           *)
LEMMA FlattenGathers ==
  ASSUME NEW T, NEW J, NEW f \in [J -> Seq(T)], NEW order \in Seq(J), IsInjective(order),
         \A j \in J : f[j] # <<>> => j \in Range(order),
         NEW ss \in [DOMAIN order -> Seq(T)], \A i \in DOMAIN order : ss[i] = f[order[i]]
  PROVE  FlattenSeq(ss) \in Seq(T) /\ \E at : Gathered(FlattenSeq(ss), J, f, at)
<1> DEFINE F == FlattenSeq(ss)
           n == Len(order)
<1>1. /\ ss \in Seq(Seq(T)) /\ Len(ss) = n /\ n \in Nat /\ DOMAIN order = 1..n
      /\ \A i \in 1..n : ss[i] = f[order[i]] /\ order[i] \in J
  OBVIOUS
<1> HIDE DEF n
<1>2. F \in Seq(T) /\ \E blk, pos : Placed(F, ss, n, blk, pos)
  BY <1>1, FlattenPlaces
<1>3. PICK blk, pos : Placed(F, ss, n, blk, pos)
  BY <1>2
<1>4. DOMAIN F = 1..Len(F) /\ Len(F) \in Nat
  BY <1>2
<1> HIDE DEF F
<1> DEFINE D == 1..Len(F)
           at == [m \in D |-> <<order[blk[m]], pos[m]>>]
<1>5. /\ \A m \in D : /\ blk[m] \in 1..n /\ pos[m] \in DOMAIN f[order[blk[m]]]
                      /\ F[m] = f[order[blk[m]]][pos[m]]
                      /\ blk[m] \in Nat /\ pos[m] \in Nat
      /\ \A i \in 1..n : \A q \in DOMAIN f[order[i]] :
           \E m \in D : blk[m] = i /\ pos[m] = q
      /\ \A l, m \in D :
           l < m => blk[l] < blk[m] \/ (blk[l] = blk[m] /\ pos[l] < pos[m])
  <2>1. \A i \in 1..n : DOMAIN f[order[i]] = 1..Len(ss[i]) /\ Len(ss[i]) \in Nat
    <3>1. \A s \in Seq(T) : DOMAIN s = 1..Len(s) /\ Len(s) \in Nat
      OBVIOUS
    <3>2. \A i \in 1..n : ss[i] \in Seq(T)
      BY <1>1
    <3>3. QED
      BY <1>1, <3>1, <3>2
  <2>2. \A m \in D : blk[m] \in 1..n /\ pos[m] \in 1..Len(ss[blk[m]])
                     /\ F[m] = ss[blk[m]][pos[m]]
    BY <1>3 DEF Placed
  <2>3. \A m \in D : /\ blk[m] \in 1..n /\ pos[m] \in DOMAIN f[order[blk[m]]]
                     /\ F[m] = f[order[blk[m]]][pos[m]]
                     /\ blk[m] \in Nat /\ pos[m] \in Nat
    BY <1>1, <2>1, <2>2
  <2>4. \A i \in 1..n : \A q \in DOMAIN f[order[i]] :
           \E m \in D : blk[m] = i /\ pos[m] = q
    <3> SUFFICES ASSUME NEW i \in 1..n, NEW q \in DOMAIN f[order[i]]
                 PROVE  \E m \in D : blk[m] = i /\ pos[m] = q
      OBVIOUS
    <3>1. q \in 1..Len(ss[i])
      BY <2>1
    <3>2. QED
      BY <1>3, <3>1 DEF Placed
  <2>5. \A l, m \in D :
           l < m => blk[l] < blk[m] \/ (blk[l] = blk[m] /\ pos[l] < pos[m])
    BY <1>3 DEF Placed
  <2>6. QED
    BY <2>3, <2>4, <2>5
<1>6. \A m \in D : at[m] = <<order[blk[m]], pos[m]>> /\ at[m][1] = order[blk[m]] /\ at[m][2] = pos[m]
  OBVIOUS
<1>7. \A l, m \in D : order[blk[l]] = order[blk[m]] => blk[l] = blk[m]
  BY <1>1, <1>5 DEF IsInjective
<1>8. at \in Bijection(D, PlacesOf(J, f))
  <2>1. \A m \in D : at[m] \in PlacesOf(J, f)
    BY <1>1, <1>5 DEF PlacesOf
  <2>2. \A l, m \in D : at[l] = at[m] => l = m
    <3> SUFFICES ASSUME NEW l \in D, NEW m \in D, at[l] = at[m] PROVE l = m
      OBVIOUS
    <3>1. blk[l] = blk[m] /\ pos[l] = pos[m]
      BY <1>6, <1>7
    <3>2. ~(l < m) /\ ~(m < l)
      <4>1. blk[l] \in Nat /\ pos[l] \in Nat
        BY <1>5
      <4>2. /\ l < m => blk[l] < blk[m] \/ (blk[l] = blk[m] /\ pos[l] < pos[m])
            /\ m < l => blk[m] < blk[l] \/ (blk[m] = blk[l] /\ pos[m] < pos[l])
        BY <1>5
      <4> HIDE DEF at
      <4>3. QED
        BY <3>1, <4>1, <4>2
    <3>3. QED
      BY <1>4, <3>2
  <2>3. \A x \in PlacesOf(J, f) : \E m \in D : at[m] = x
    <3> SUFFICES ASSUME NEW x \in PlacesOf(J, f) PROVE \E m \in D : at[m] = x
      OBVIOUS
    <3>1. PICK j \in J : x \in {j} \X DOMAIN f[j]
      BY DEF PlacesOf
    <3>2. PICK q \in DOMAIN f[j] : x = <<j, q>>
      BY <3>1
    <3>3. f[j] # <<>>
      BY <3>2
    <3>4. PICK i \in 1..n : order[i] = j
      BY <1>1, <3>3 DEF Range
    <3>5. PICK m \in D : blk[m] = i /\ pos[m] = q
      BY <1>5, <3>2, <3>4
    <3>6. QED
      BY <1>6, <3>2, <3>4, <3>5
  <2>4. at \in [D -> PlacesOf(J, f)]
    BY <2>1
  <2> HIDE DEF at
  <2>5. QED
    BY <2>2, <2>3, <2>4 DEF Bijection, Injection, Surjection, IsInjective
<1>9. \A l, m \in D : l < m /\ at[l][1] = at[m][1] => at[l][2] < at[m][2]
  <2> SUFFICES ASSUME NEW l \in D, NEW m \in D, l < m, at[l][1] = at[m][1]
               PROVE  at[l][2] < at[m][2]
    OBVIOUS
  <2>1. blk[l] = blk[m]
    BY <1>6, <1>7
  <2> HIDE DEF at
  <2>2. pos[l] < pos[m]
    BY <1>5, <2>1
  <2>3. QED
    BY <1>6, <2>2
<1>10. \A m \in D : F[m] = f[at[m][1]][at[m][2]]
  BY <1>5, <1>6
<1> HIDE DEF at
<1>11. Gathered(F, J, f, at)
  BY <1>4, <1>8, <1>9, <1>10 DEF Gathered
<1>12. QED
  BY <1>2, <1>11 DEF F

(* Two lists of the same findings sort alike, if only findings of one      *)
(* comparison have a key in common.                                        *)
LEMMA GatheredAlike ==
  ASSUME NEW T, \A x \in T : Sortable(x), NEW its \in Seq(T), NEW other \in Seq(T),
         NEW J, NEW f \in [J -> Seq(T)], NEW at, NEW at2,
         Gathered(its, J, f, at), Gathered(other, J, f, at2),
         \A x, y \in PlacesOf(J, f) :
           f[x[1]][x[2]].key = f[y[1]][y[2]].key => x[1] = y[1]
  PROVE  StableSort(its) = StableSort(other)
<1> DEFINE P == PlacesOf(J, f)
           At(x) == f[x[1]][x[2]]
           D == DOMAIN its
           E == DOMAIN other
<1> HIDE DEF P
<1>1. /\ at \in [D -> P] /\ (\A l, m \in D : at[l] = at[m] => l = m)
      /\ \A x \in P : \E m \in D : at[m] = x
      /\ \A m \in D : its[m] = At(at[m])
      /\ \A l, m \in D : l < m /\ at[l][1] = at[m][1] => at[l][2] < at[m][2]
  BY DEF Gathered, Bijection, Injection, Surjection, IsInjective, P
<1>2. /\ at2 \in [E -> P] /\ (\A l, m \in E : at2[l] = at2[m] => l = m)
      /\ \A x \in P : \E m \in E : at2[m] = x
      /\ \A m \in E : other[m] = At(at2[m])
      /\ \A l, m \in E : l < m /\ at2[l][1] = at2[m][1] => at2[l][2] < at2[m][2]
  BY DEF Gathered, Bijection, Injection, Surjection, IsInjective, P
<1>3. /\ D = 1..Len(its) /\ E = 1..Len(other) /\ Len(its) \in Nat /\ Len(other) \in Nat
      /\ (\A m \in D : its[m] \in T /\ m \in Nat) /\ (\A m \in E : other[m] \in T /\ m \in Nat)
  OBVIOUS
<1>4. \A x \in P : x[2] \in Nat
  BY DEF P, PlacesOf
<1> HIDE DEF D, E, At
<1>5. \A x, y \in P : At(x).key = At(y).key => x[1] = y[1]
  BY DEF At, P
<1> DEFINE b == [m \in D |-> CHOOSE n \in E : at2[n] = at[m]]
<1>6. \A m \in D : b[m] \in E /\ at2[b[m]] = at[m]
  BY <1>1, <1>2
<1>7. b \in Bijection(D, E)
  <2>1. b \in [D -> E]
    <3>1. b = [m \in D |-> b[m]]
      OBVIOUS
    <3> HIDE DEF b
    <3>2. QED
      BY <1>6, <3>1
  <2> HIDE DEF b
  <2>2. \A l, m \in D : b[l] = b[m] => l = m
    BY <1>1, <1>6
  <2>3. \A n \in E : \E m \in D : b[m] = n
    BY <1>1, <1>2, <1>6
  <2>4. QED
    BY <2>1, <2>2, <2>3 DEF Bijection, Injection, Surjection, IsInjective
<1> HIDE DEF b
<1>8. \A m \in D : its[m] = other[b[m]]
  BY <1>1, <1>2, <1>6
<1>9. ASSUME NEW i \in D, NEW j \in D, <<i, j>> \in SortOrder(its)
      PROVE  <<b[i], b[j]>> \in SortOrder(other)
  <2>1. /\ \/ ItemLess(its[i], its[j])
           \/ ~ItemLess(its[j], its[i]) /\ i < j
        /\ its[i] = other[b[i]] /\ its[j] = other[b[j]] /\ b[i] \in E /\ b[j] \in E
    BY <1>6, <1>8, <1>9, PositionsOrdered DEF D
  <2>2. <<b[i], b[j]>> \in SortOrder(other) <=>
          \/ ItemLess(other[b[i]], other[b[j]])
          \/ ~ItemLess(other[b[j]], other[b[i]]) /\ b[i] < b[j]
    BY <2>1, PositionsOrdered DEF E
  <2>3. ASSUME ~ItemLess(its[i], its[j]), ~ItemLess(its[j], its[i]), i < j
        PROVE  b[i] < b[j]
    <3>1. its[i].key = its[j].key
      <4>1. Sortable(its[i]) /\ Sortable(its[j])
        BY <1>3
      <4>2. QED
        BY <2>3, <4>1, ItemRanks
    <3>2. at[i][1] = at[j][1]
      BY <1>1, <1>5, <3>1
    <3>3. at[i][2] < at[j][2]
      BY <1>1, <2>3, <3>2
    <3>4. at2[b[i]] = at[i] /\ at2[b[j]] = at[j]
      BY <1>6
    <3>5. /\ at[i][2] \in Nat /\ at[j][2] \in Nat
          /\ b[i] \in Nat /\ b[j] \in Nat
      BY <1>1, <1>3, <1>4, <2>1
    <3>6. b[i] # b[j]
      BY <3>3, <3>4, <3>5
    <3>7. ~(b[j] < b[i])
      <4> SUFFICES ASSUME b[j] < b[i] PROVE FALSE
        OBVIOUS
      <4>1. at[j][2] < at[i][2]
        BY <1>2, <2>1, <3>2, <3>4
      <4>2. QED
        BY <3>3, <3>5, <4>1
    <3>8. QED
      BY <3>5, <3>6, <3>7
  <2>4. QED
    BY <2>1, <2>2, <2>3
<1>10. QED
  BY <1>7, <1>8, <1>9, SortedAlike DEF D, E

\* s holds every finding, as often as it was found.
HoldsEach(s, J, f) ==
  /\ Len(s) = Cardinality(PlacesOf(J, f))
  /\ \A x : Cardinality({i \in DOMAIN s : s[i] = x})
              = Cardinality({q \in PlacesOf(J, f) : f[q[1]][q[2]] = x})

(* Sorting loses and repeats no finding.                                   *)
LEMMA GatheredCounts ==
  ASSUME NEW T, \A x \in T : Sortable(x), NEW its \in Seq(T),
         NEW J, NEW f, NEW at, Gathered(its, J, f, at)
  PROVE  HoldsEach(StableSort(its), J, f)
<1> DEFINE P == PlacesOf(J, f)
           At(x) == f[x[1]][x[2]]
           s == StableSort(its)
           D == 1..Len(its)
<1>1. PICK order \in Bijection(D, D) :
        s = [p \in D |-> its[order[p]]] /\ s \in Seq(T) /\ Len(s) = Len(its)
  BY SortRearranges
<1>2. D = DOMAIN its /\ Len(its) \in Nat /\ DOMAIN s = D
  BY <1>1
<1> HIDE DEF P, s, D
<1>3. /\ order \in [D -> D] /\ (\A l, m \in D : order[l] = order[m] => l = m)
      /\ \A x \in D : \E m \in D : order[m] = x
  BY <1>1 DEF Bijection, Injection, Surjection, IsInjective
<1>4. /\ at \in [D -> P] /\ (\A l, m \in D : at[l] = at[m] => l = m)
      /\ \A x \in P : \E m \in D : at[m] = x
      /\ \A m \in D : its[m] = At(at[m])
  BY <1>2 DEF Gathered, Bijection, Injection, Surjection, IsInjective, P
<1> HIDE DEF At
<1> DEFINE b == [p \in D |-> at[order[p]]]
<1>5. b \in Bijection(D, P)
  <2>1. b \in [D -> P]
    BY <1>3, <1>4
  <2>2. \A l, m \in D : b[l] = b[m] => l = m
    BY <1>3, <1>4
  <2>3. \A x \in P : \E m \in D : b[m] = x
    BY <1>3, <1>4
  <2> HIDE DEF b
  <2>4. QED
    BY <2>1, <2>2, <2>3 DEF Bijection, Injection, Surjection, IsInjective
<1>6. \A p \in D : s[p] = At(b[p])
  BY <1>1, <1>3, <1>4
<1> HIDE DEF b
<1>7. IsFiniteSet(D) /\ Cardinality(D) = Len(its)
  BY <1>2, FS_Interval DEF D
<1>8. Len(s) = Cardinality(P)
  <2>1. \A d \in D : d \in D <=> b[d] \in P
    BY <1>5 DEF Bijection, Injection
  <2>2. Cardinality(D) = Cardinality(P)
    BY <1>5, <1>7, <2>1, CountedAlike
  <2>3. QED
    BY <1>1, <1>7, <2>2
<1>9. ASSUME NEW x
      PROVE  Cardinality({i \in D : s[i] = x}) = Cardinality({q \in P : At(q) = x})
  <2> DEFINE U == {i \in D : s[i] = x}
             V == {q \in P : At(q) = x}
  <2>1. U \in SUBSET D /\ V \in SUBSET P
    OBVIOUS
  <2>2. \A d \in D : d \in U <=> b[d] \in V
    <3>1. \A d \in D : b[d] \in P
      BY <1>5 DEF Bijection, Injection
    <3>2. QED
      BY <1>6, <3>1
  <2> HIDE DEF U, V
  <2>3. Cardinality(U) = Cardinality(V)
    BY <1>5, <1>7, <2>1, <2>2, CountedAlike
  <2>4. QED
    BY <2>3 DEF U, V
<1>10. QED
  BY <1>2, <1>8, <1>9 DEF HoldsEach, P, s, At
=============================================================================
