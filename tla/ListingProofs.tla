---------------------------- MODULE ListingProofs ---------------------------
(***************************************************************************)
(* Criteria nested to any depth, and lists read page by page, for any table, *)
(* any sort keys, any limit and any number of pages and of writes.           *)
(*                                                                         *)
(* Numbers are well-founded (WellFoundedInduction); induction along a rank   *)
(* and the existence of what a recursive definition defines follow from that *)
(* without an operator as a parameter.                                       *)
(***************************************************************************)
EXTENDS Listing, FiniteSetTheorems, SequenceTheorems, WellFoundedInduction, TLAPS

-----------------------------------------------------------------------------
(* Induction and recursion.                                                 *)

Less == {p \in Nat \X Nat : p[1] < p[2]}

(* A set of numbers has a least one.                                        *)
LEMMA LeastNumber ==
  ASSUME NEW T \in SUBSET Nat, T # {}
  PROVE  \E n \in T : \A m \in T : n <= m
<1>1. Less = OpToRel(<, Nat)
  BY Zenon DEF OpToRel, Less
<1>2. IsWellFoundedOn(Less, Nat)
  BY <1>1, NatLessThanWellFounded, Zenon
<1>3. PICK n \in T : \A m \in T : ~ (<<m, n>> \in Less)
  BY <1>2, WFMin
<1>4. \A m \in T : ~(m < n)
  BY <1>3 DEF Less
<1>5. n \in Nat /\ T \subseteq Nat
  OBVIOUS
<1> QED  BY <1>4, <1>5

(* Induction along a rank. *)
Progressive(D, rank, T) ==
    \A x \in D : (\A y \in D : rank[y] < rank[x] => y \in T) => x \in T

LEMMA RankInduction ==
  ASSUME NEW D, NEW rank \in [D -> Nat], NEW T, Progressive(D, rank, T)
  PROVE  D \subseteq T
<1> SUFFICES ASSUME D \ T # {} PROVE FALSE
  OBVIOUS
<1> DEFINE R == {rank[x] : x \in D \ T}
<1>1. R \in SUBSET Nat /\ R # {}
  OBVIOUS
<1>2. PICK n \in R : \A m \in R : n <= m
  BY <1>1, LeastNumber
<1>3. PICK x \in D \ T : rank[x] = n
  BY <1>2
<1>4. \A y \in D \ T : rank[y] \in R
  OBVIOUS
<1>5. \A y \in D : rank[y] < rank[x] => y \in T
  <2> HIDE DEF R
  <2> QED  BY <1>1, <1>2, <1>3, <1>4
<1> QED  BY <1>3, <1>5 DEF Progressive

(* Recursion along a bounded rank: what step gives for x depends on what has a *)
(* lower rank only.                                                          *)
LooksBelow(D, U, rank, step) ==
    \A x \in D : \A g, h \in [D -> U] :
        (\A y \in D : rank[y] < rank[x] => g[y] = h[y]) => step[x][g] = step[x][h]

IsSolution(D, step, f) == \A x \in D : f[x] = step[x][f]

LEMMA RecursionHasSolution ==
  ASSUME NEW D, NEW U, U # {}, NEW N \in Nat, NEW rank \in [D -> 0 .. N],
         NEW step \in [D -> [[D -> U] -> U]], LooksBelow(D, U, rank, step)
  PROVE  \E f \in [D -> U] : IsSolution(D, step, f)
<1> DEFINE Solves(f, n) == \A x \in D : rank[x] < n => f[x] = step[x][f]
           T == {n \in Nat : ~ \E f \in [D -> U] : Solves(f, n)}
<1>1. T = {}
  <2> SUFFICES ASSUME T # {} PROVE FALSE
    OBVIOUS
  <2>1. PICK n \in T : \A m \in T : n <= m
    BY LeastNumber
  <2>2. CASE n = 0
    <3>1. PICK u \in U : TRUE
      OBVIOUS
    <3>2. [x \in D |-> u] \in [D -> U] /\ Solves([x \in D |-> u], 0)
      OBVIOUS
    <3> QED  BY <2>2, <3>2
  <2>3. CASE n # 0
    <3>1. n - 1 \in Nat /\ n - 1 \notin T
      <4>1. n \in Nat
        OBVIOUS
      <4> HIDE DEF T
      <4> QED  BY <2>1, <2>3, <4>1
    <3>2. PICK f \in [D -> U] : Solves(f, n - 1)
      BY <3>1
    <3> DEFINE k == [x \in D |-> IF rank[x] < n - 1 THEN f[x] ELSE step[x][f]]
    <3>3. k \in [D -> U]
      OBVIOUS
    <3>4. ASSUME NEW x \in D, rank[x] < n
          PROVE  k[x] = step[x][k]
      <4>1. k[x] = step[x][f]
        BY <3>2
      <4>2. \A y \in D : rank[y] < rank[x] => f[y] = k[y]
        BY <3>4, <2>1
      <4> HIDE DEF k
      <4> QED  BY <4>1, <4>2, <3>3 DEF LooksBelow
    <3>5. Solves(k, n)
      BY <3>4
    <3> QED  BY <3>3, <3>5
  <2> QED  BY <2>2, <2>3
<1>2. PICK f \in [D -> U] : Solves(f, N + 1)
  <2>1. N + 1 \in Nat
    OBVIOUS
  <2> HIDE DEF Solves
  <2> QED  BY <1>1, <2>1
<1>3. \A x \in D : rank[x] < N + 1
  OBVIOUS
<1> QED  BY <1>2, <1>3 DEF IsSolution

(* The recursive function in FlattenSeq. *)
Partial(ss, f) == f = [i \in 1 .. Len(ss) |-> IF i = 1 THEN ss[i] ELSE f[i - 1] \o ss[i]]

(* FlattenSeq is what its recursion says, and a sequence of entries.        *)
LEMMA FlattenSolved ==
  ASSUME NEW A, NEW ss \in Seq(Seq(A)), ss # <<>>
  PROVE  \E f \in [1 .. Len(ss) -> Seq(A)] : Partial(ss, f) /\ FlattenSeq(ss) = f[Len(ss)]
<1> DEFINE n == Len(ss)
           D == 1 .. n
           U == Seq(A)
           rank == [i \in D |-> i]
           step == [i \in D |-> [g \in [D -> U] |-> IF i = 1 THEN ss[i] ELSE g[i - 1] \o ss[i]]]
<1>1. n \in Nat /\ n >= 1 /\ \A i \in D : ss[i] \in U
  OBVIOUS
<1> HIDE DEF n
<1>2. \A i \in D : i # 1 => i - 1 \in D
  BY <1>1
<1>3. step \in [D -> [[D -> U] -> U]]
  BY <1>1, <1>2
<1>4. rank \in [D -> 0 .. n]
  BY <1>1
<1>5. LooksBelow(D, U, rank, step)
  BY <1>2 DEF LooksBelow
<1>6. U # {} /\ <<>> \in U
  OBVIOUS
<1> HIDE DEF D, U, rank, step
<1>7. PICK f \in [D -> U] : IsSolution(D, step, f)
  BY <1>1, <1>3, <1>4, <1>5, <1>6, RecursionHasSolution
<1>8. \A i \in D : f[i] = IF i = 1 THEN ss[i] ELSE f[i - 1] \o ss[i]
  BY <1>7 DEF step, IsSolution
<1> USE DEF D, U
<1>9. Partial(ss, f)
  BY <1>8 DEF n, Partial
<1> DEFINE c == CHOOSE g : Partial(ss, g)
<1>10. Partial(ss, c)
  BY <1>9
<1>11. FlattenSeq(ss) = c[n]
  BY <1>1 DEF FlattenSeq, Partial, n
<1>12. c = [i \in D |-> IF i = 1 THEN ss[i] ELSE c[i - 1] \o ss[i]]
  BY <1>10 DEF Partial, n
<1> HIDE DEF c, D
<1>13. D \subseteq {i \in D : c[i] \in Seq(A)}
  <2> DEFINE T == {i \in D : c[i] \in Seq(A)}
  <2>1. ASSUME NEW i \in D, \A j \in D : rank[j] < rank[i] => j \in T
        PROVE  i \in T
    <3>1. CASE i = 1
      BY <1>1, <1>12, <3>1
    <3>2. CASE i # 1
      <4>1. i - 1 \in D /\ rank[i - 1] < rank[i]
        BY <1>2, <3>2 DEF rank, D
      <4>2. c[i - 1] \in Seq(A)
        BY <2>1, <4>1
      <4>3. c[i] = c[i - 1] \o ss[i]
        BY <1>12, <3>2
      <4>4. c[i] \in Seq(A)
        BY <1>1, <4>2, <4>3
      <4> QED  BY <4>4
    <3> QED  BY <3>1, <3>2
  <2>2. rank \in [D -> Nat]
    BY <1>4
  <2> HIDE DEF T
  <2>3. Progressive(D, rank, T)
    BY <2>1 DEF Progressive
  <2>4. D \subseteq T
    BY <2>2, <2>3, RankInduction
  <2> QED  BY <2>4 DEF T
<1>14. c \in [D -> Seq(A)]
  BY <1>12, <1>13
<1> QED BY <1>10, <1>11, <1>14 DEF D, n

(* Nothing in sequence is nothing.                                          *)
LEMMA FlattenEmpty == FlattenSeq(<<>>) = <<>>
  BY DEF FlattenSeq

(* The entries of a flattened sequence are entries of its parts.            *)
LEMMA FlattenType ==
  ASSUME NEW A, NEW ss \in Seq(Seq(A))
  PROVE  FlattenSeq(ss) \in Seq(A)
<1>1. CASE ss = <<>>
  <2>1. FlattenSeq(ss) = <<>>
    BY <1>1, FlattenEmpty, Zenon
  <2> QED  BY <2>1
<1>2. CASE ss # <<>>
  <2>1. PICK f \in [1 .. Len(ss) -> Seq(A)] : Partial(ss, f) /\ FlattenSeq(ss) = f[Len(ss)]
    BY <1>2, FlattenSolved
  <2>2. Len(ss) \in 1 .. Len(ss)
    BY <1>2
  <2> QED  BY <2>1, <2>2
<1> QED  BY <1>1, <1>2

(* The last part comes last.                                                *)
LEMMA FlattenAppend ==
  ASSUME NEW A, NEW ss \in Seq(Seq(A)), NEW s \in Seq(A)
  PROVE  FlattenSeq(Append(ss, s)) = FlattenSeq(ss) \o s
<1> DEFINE tt == Append(ss, s)
           n  == Len(ss)
<1>1. /\ n \in Nat /\ tt \in Seq(Seq(A)) /\ Len(tt) = n + 1 /\ tt # <<>>
      /\ tt[n + 1] = s /\ \A i \in 1 .. n : tt[i] = ss[i]
  BY AppendProperties
<1>2. PICK g \in [1 .. Len(tt) -> Seq(A)] : Partial(tt, g) /\ FlattenSeq(tt) = g[Len(tt)]
  BY <1>1, FlattenSolved
<1> HIDE DEF tt
<1>3. \A i \in 1 .. n + 1 : g[i] = IF i = 1 THEN tt[i] ELSE g[i - 1] \o tt[i]
  BY <1>1, <1>2 DEF Partial
<1>4. CASE ss = <<>>
  <2>1. n = 0
    BY <1>4
  <2>2. FlattenSeq(tt) = s
    BY <1>1, <1>2, <1>3, <2>1
  <2> QED  BY <1>4, <2>2, FlattenEmpty DEF tt
<1>5. CASE ss # <<>>
  <2>1. PICK f \in [1 .. n -> Seq(A)] : Partial(ss, f) /\ FlattenSeq(ss) = f[n]
    BY <1>5, FlattenSolved
  <2>2. n >= 1
    BY <1>5
  <2> HIDE DEF n
  <2>3. \A i \in 1 .. n : f[i] = IF i = 1 THEN ss[i] ELSE f[i - 1] \o ss[i]
    BY <2>1 DEF Partial, n
  <2> DEFINE T == {i \in 1 .. n : f[i] = g[i]}
             rank == [i \in 1 .. n |-> i]
  <2>4. ASSUME NEW i \in 1 .. n, \A j \in 1 .. n : rank[j] < rank[i] => j \in T
        PROVE  i \in T
    <3>1. CASE i = 1
      <4>1. i \in 1 .. n + 1
        BY <1>1
      <4>2. f[i] = ss[i] /\ g[i] = tt[i]
        BY <1>3, <2>3, <3>1, <4>1
      <4> QED  BY <1>1, <4>2
    <3>2. CASE i # 1
      <4>1. i - 1 \in 1 .. n /\ i \in 1 .. n + 1 /\ rank[i - 1] < rank[i]
        BY <1>1, <3>2
      <4>2. f[i - 1] = g[i - 1]
        BY <2>4, <4>1
      <4>3. f[i] = f[i - 1] \o ss[i] /\ g[i] = g[i - 1] \o tt[i]
        BY <1>3, <2>3, <3>2, <4>1
      <4> QED  BY <1>1, <4>2, <4>3
    <3> QED  BY <3>1, <3>2
  <2>5. rank \in [1 .. n -> Nat]
    BY <1>1
  <2>9. 1 .. n \subseteq T
    <3> DEFINE D == 1 .. n
    <3> HIDE DEF T, rank, D
    <3>1. Progressive(D, rank, T)
      BY <2>4 DEF Progressive, D
    <3>2. rank \in [D -> Nat]
      BY <2>5 DEF D
    <3>3. D \subseteq T
      BY <3>1, <3>2, RankInduction
    <3> QED  BY <3>3 DEF D
  <2> HIDE DEF T
  <2>6. 1 .. n \subseteq T
    BY <2>9
  <2>7. f[n] = g[n]
    BY <1>1, <2>2, <2>6 DEF T
  <2>8. g[n + 1] = g[n] \o tt[n + 1]
    <3>1. n + 1 \in 1 .. n + 1 /\ n + 1 # 1 /\ (n + 1) - 1 = n
      BY <1>1, <2>2
    <3> QED  BY <1>3, <3>1
  <2> QED  BY <1>1, <1>2, <2>1, <2>7, <2>8 DEF tt
<1> QED  BY <1>4, <1>5

(* Induction over sequences.                                                *)
LEMMA SeqInduction ==
  ASSUME NEW A, NEW T, <<>> \in T,
         \A s \in Seq(A), a \in A : s \in T => Append(s, a) \in T
  PROVE  Seq(A) \subseteq T
<1> DEFINE rank == [s \in Seq(A) |-> Len(s)]
<1>1. ASSUME NEW s \in Seq(A), \A t \in Seq(A) : rank[t] < rank[s] => t \in T
      PROVE  s \in T
  <2>1. CASE s = <<>>
    BY <2>1
  <2>2. CASE s # <<>>
    <3>1. PICK t \in Seq(A), a \in A : s = Append(t, a)
      BY <2>2, SequenceEmptyOrAppend
    <3>2. Len(s) = Len(t) + 1 /\ Len(t) \in Nat
      BY <3>1
    <3>3. t \in T
      BY <1>1, <3>2
    <3> QED  BY <3>1, <3>3
  <2> QED  BY <2>1, <2>2
<1>2. rank \in [Seq(A) -> Nat]
  OBVIOUS
<1> DEFINE D == Seq(A)
<1> HIDE DEF rank, D
<1>3. Progressive(D, rank, T)
  BY <1>1 DEF Progressive, D
<1>4. D \subseteq T
  BY <1>2, <1>3, RankInduction DEF D
<1> QED  BY <1>4 DEF D

-----------------------------------------------------------------------------
(* Sequences made of sequences.                                             *)

InSeq(x, s) == \E i \in DOMAIN s : s[i] = x

Each(s, h) == [i \in DOMAIN s |-> h[s[i]]]

(* What h has for the entries of s, one after the other. *)
Gather(s, h) == FlattenSeq(Each(s, h))

IsEach(t, s, h, C) ==
    /\ t \in Seq(C)
    /\ Len(t) = Len(s)
    /\ \A i \in 1 .. Len(s) : t[i] = h[s[i]]

(* Mapping keeps the length and the places.                                 *)
LEMMA Mapped ==
  ASSUME NEW A, NEW C, NEW h \in [A -> C], NEW s \in Seq(A)
  PROVE  IsEach(Each(s, h), s, h, C)
<1> DEFINE n == Len(s)
           t == Each(s, h)
<1>1. n \in Nat /\ DOMAIN s = 1 .. n /\ \A i \in 1 .. n : s[i] \in A
  OBVIOUS
<1>2. t \in [1 .. n -> C]
  <2> HIDE DEF n
  <2> QED  BY <1>1 DEF Each
<1>3. \A i \in 1 .. n : t[i] = h[s[i]]
  <2> HIDE DEF n
  <2> QED  BY <1>1 DEF Each
<1> HIDE DEF n, t
<1>4. t \in Seq(C) /\ Len(t) = n
  BY <1>1, <1>2
<1> QED  BY <1>1, <1>3, <1>4 DEF n, t, IsEach

(* What is gathered is of the kind h has.                                   *)
LEMMA GatherType ==
  ASSUME NEW A, NEW B, NEW h \in [A -> Seq(B)], NEW s \in Seq(A)
  PROVE  Gather(s, h) \in Seq(B)
<1> DEFINE C == Seq(B)
<1> HIDE DEF C
<1>1. h \in [A -> C]
  BY DEF C
<1>2. Each(s, h) \in Seq(C)
  BY <1>1, Mapped DEF IsEach
<1>3. Each(s, h) \in Seq(Seq(B))
  BY <1>2 DEF C
<1> QED  BY <1>3, FlattenType DEF Gather

(* Nothing is gathered from nothing.                                        *)
LEMMA GatherEmpty ==
  ASSUME NEW h
  PROVE  Gather(<<>>, h) = <<>>
<1>1. Each(<<>>, h) = <<>>
  BY DEF Each
<1> QED  BY <1>1, FlattenEmpty DEF Gather

(* What the last entry has comes last.                                      *)
LEMMA GatherAppend ==
  ASSUME NEW A, NEW B, NEW h \in [A -> Seq(B)], NEW s \in Seq(A), NEW a \in A
  PROVE  Gather(Append(s, a), h) = Gather(s, h) \o h[a]
<1> DEFINE C  == Seq(B)
           n  == Len(s)
           t  == Append(s, a)
           ss == Each(s, h)
           tt == Each(t, h)
           u  == Append(ss, h[a])
<1>1. n \in Nat /\ t \in Seq(A) /\ Len(t) = n + 1 /\ t[n + 1] = a /\ \A i \in 1 .. n : t[i] = s[i]
  BY AppendProperties
<1> HIDE DEF C, t
<1>2. h \in [A -> C] /\ h[a] \in C
  BY DEF C
<1>3. ss \in Seq(C) /\ Len(ss) = n /\ \A i \in 1 .. n : ss[i] = h[s[i]]
  <2>1. IsEach(ss, s, h, C)
    BY <1>2, Mapped
  <2> HIDE DEF ss
  <2> QED  BY <2>1 DEF IsEach
<1>4. tt \in Seq(C) /\ Len(tt) = n + 1 /\ \A i \in 1 .. n + 1 : tt[i] = h[t[i]]
  <2>1. IsEach(tt, t, h, C)
    BY <1>1, <1>2, Mapped
  <2> HIDE DEF tt
  <2> QED  BY <1>1, <2>1 DEF IsEach
<1> HIDE DEF ss, tt, n
<1>5. u \in Seq(C) /\ Len(u) = n + 1 /\ u[n + 1] = h[a] /\ \A i \in 1 .. n : u[i] = ss[i]
  BY <1>2, <1>3, AppendProperties
<1> HIDE DEF u
<1>6. \A i \in 1 .. n + 1 : tt[i] = u[i]
  <2>1. \A i \in 1 .. n : tt[i] = u[i]
    <3> TAKE i \in 1 .. n
    <3>1. i \in 1 .. n + 1
      BY <1>1
    <3>2. tt[i] = h[t[i]]
      BY <1>4, <3>1, Zenon
    <3>3. t[i] = s[i]
      BY <1>1, Zenon
    <3>4. ss[i] = h[s[i]] /\ u[i] = ss[i]
      BY <1>3, <1>5, Zenon
    <3> QED  BY <3>2, <3>3, <3>4
  <2>2. tt[n + 1] = u[n + 1]
    <3>1. n + 1 \in 1 .. n + 1
      BY <1>1
    <3> QED  BY <1>1, <1>4, <1>5, <3>1
  <2> QED  BY <1>1, <2>1, <2>2
<1>7. tt = u
  BY <1>4, <1>5, <1>6
<1>8. FlattenSeq(tt) = FlattenSeq(ss) \o h[a]
  <2>1. ss \in Seq(Seq(B)) /\ h[a] \in Seq(B)
    BY <1>2, <1>3 DEF C
  <2> QED  BY <1>7, <2>1, FlattenAppend DEF u
<1> QED  BY <1>8 DEF Gather, ss, tt, t

(* What is gathered from two sequences comes in their order.                *)
LEMMA GatherConcat ==
  ASSUME NEW A, NEW B, NEW h \in [A -> Seq(B)], NEW s \in Seq(A), NEW t \in Seq(A)
  PROVE  Gather(s \o t, h) = Gather(s, h) \o Gather(t, h)
<1> DEFINE T == {u \in Seq(A) : Gather(s \o u, h) = Gather(s, h) \o Gather(u, h)}
<1>1. <<>> \in T
  <2>1. s \o <<>> = s /\ Gather(s, h) \in Seq(B)
    BY GatherType
  <2>2. Gather(s, h) \o <<>> = Gather(s, h)
    BY <2>1
  <2> QED  BY <2>1, <2>2, GatherEmpty
<1>2. ASSUME NEW u \in Seq(A), NEW a \in A, u \in T
      PROVE  Append(u, a) \in T
  <2>1. s \o Append(u, a) = Append(s \o u, a) /\ s \o u \in Seq(A) /\ Append(u, a) \in Seq(A)
    OBVIOUS
  <2>2. Gather(s \o Append(u, a), h) = Gather(s \o u, h) \o h[a]
    BY <2>1, GatherAppend
  <2>3. Gather(Append(u, a), h) = Gather(u, h) \o h[a]
    BY GatherAppend
  <2>4. Gather(s \o u, h) = Gather(s, h) \o Gather(u, h)
    BY <1>2
  <2>5. /\ Gather(s, h) \in Seq(B) /\ Gather(u, h) \in Seq(B) /\ h[a] \in Seq(B)
    BY GatherType
  <2>6. (Gather(s, h) \o Gather(u, h)) \o h[a] = Gather(s, h) \o (Gather(u, h) \o h[a])
    <3> DEFINE x == Gather(s, h)
               y == Gather(u, h)
               z == h[a]
    <3>1. x \in Seq(B) /\ y \in Seq(B) /\ z \in Seq(B)
      BY <2>5
    <3> HIDE DEF x, y, z
    <3>2. (x \o y) \o z = x \o (y \o z)
      BY <3>1
    <3> QED  BY <3>2 DEF x, y, z
  <2> QED  BY <2>1, <2>2, <2>3, <2>4, <2>6
<1> HIDE DEF T
<1>3. Seq(A) \subseteq T
  BY <1>1, <1>2, SeqInduction
<1> QED  BY <1>3 DEF T

(* Joined sequences have the entries of both.                               *)
LEMMA InConcat ==
  ASSUME NEW A, NEW s \in Seq(A), NEW t \in Seq(A), NEW x
  PROVE  InSeq(x, s \o t) <=> InSeq(x, s) \/ InSeq(x, t)
<1> DEFINE n == Len(s)
           m == Len(t)
           u == s \o t
<1>1. /\ n \in Nat /\ m \in Nat /\ DOMAIN s = 1 .. n /\ DOMAIN t = 1 .. m /\ DOMAIN u = 1 .. n + m
      /\ \A i \in 1 .. n : u[i] = s[i]
      /\ \A i \in 1 .. m : u[n + i] = t[i]
  BY ConcatProperties
<1> HIDE DEF n, m, u
<1>2. ASSUME InSeq(x, u) PROVE InSeq(x, s) \/ InSeq(x, t)
  <2>1. PICK i \in 1 .. n + m : u[i] = x
    BY <1>1, <1>2 DEF InSeq
  <2>2. CASE i \in 1 .. n
    BY <1>1, <2>1, <2>2 DEF InSeq
  <2>3. CASE i \notin 1 .. n
    <3>1. i - n \in 1 .. m /\ n + (i - n) = i
      BY <1>1, <2>3
    <3> QED  BY <1>1, <2>1, <3>1 DEF InSeq
  <2> QED  BY <2>2, <2>3
<1>3. ASSUME InSeq(x, s) PROVE InSeq(x, u)
  <2>1. PICK i \in 1 .. n : s[i] = x
    BY <1>1, <1>3 DEF InSeq
  <2>2. i \in 1 .. n + m
    BY <1>1
  <2> QED  BY <1>1, <2>1, <2>2 DEF InSeq
<1>4. ASSUME InSeq(x, t) PROVE InSeq(x, u)
  <2>1. PICK i \in 1 .. m : t[i] = x
    BY <1>1, <1>4 DEF InSeq
  <2>2. n + i \in 1 .. n + m
    BY <1>1
  <2> QED  BY <1>1, <2>1, <2>2 DEF InSeq
<1> QED  BY <1>2, <1>3, <1>4 DEF u

(* What is gathered is what some entry has.                                 *)
LEMMA InGather ==
  ASSUME NEW A, NEW B, NEW h \in [A -> Seq(B)], NEW s \in Seq(A), NEW x
  PROVE  InSeq(x, Gather(s, h)) <=> \E i \in DOMAIN s : InSeq(x, h[s[i]])
<1> DEFINE T == {u \in Seq(A) : InSeq(x, Gather(u, h)) <=> \E a \in A : InSeq(a, u) /\ InSeq(x, h[a])}
<1>1. <<>> \in T
  <2>1. \A y : ~InSeq(y, <<>>)
    BY DEF InSeq
  <2> QED  BY <2>1, GatherEmpty
<1>2. ASSUME NEW u \in Seq(A), NEW a \in A, u \in T
      PROVE  Append(u, a) \in T
  <2>1. Gather(Append(u, a), h) = Gather(u, h) \o h[a]
    BY GatherAppend
  <2>2. Gather(u, h) \in Seq(B) /\ h[a] \in Seq(B)
    BY GatherType
  <2>3. InSeq(x, Gather(Append(u, a), h)) <=> InSeq(x, Gather(u, h)) \/ InSeq(x, h[a])
    BY <2>1, <2>2, InConcat
  <2>4. \A b : InSeq(b, Append(u, a)) <=> InSeq(b, u) \/ b = a
    <3>1. Append(u, a) = u \o <<a>> /\ <<a>> \in Seq(A) /\ \A b : InSeq(b, <<a>>) <=> b = a
      BY DEF InSeq
    <3>2. \A b : InSeq(b, u \o <<a>>) <=> InSeq(b, u) \/ InSeq(b, <<a>>)
      <4> DEFINE e == <<a>>
      <4>1. e \in Seq(A)
        BY <3>1
      <4> HIDE DEF e
      <4>2. \A b : InSeq(b, u \o e) <=> InSeq(b, u) \/ InSeq(b, e)
        BY <4>1, InConcat
      <4> QED  BY <4>2 DEF e
    <3> QED  BY <3>1, <3>2, Zenon
  <2>5. Append(u, a) \in Seq(A)
    OBVIOUS
  <2> QED  BY <1>2, <2>3, <2>4, <2>5
<1> HIDE DEF T
<1>3. Seq(A) \subseteq T
  BY <1>1, <1>2, SeqInduction
<1>4. InSeq(x, Gather(s, h)) <=> \E a \in A : InSeq(a, s) /\ InSeq(x, h[a])
  BY <1>3 DEF T
<1> QED  BY <1>4 DEF InSeq

(* The empty sequence is the one with no entry.                             *)
LEMMA NothingIn ==
  ASSUME NEW A, NEW s \in Seq(A)
  PROVE  s = <<>> <=> \A x : ~InSeq(x, s)
<1>1. ASSUME s # <<>> PROVE InSeq(s[1], s)
  <2>1. 1 \in DOMAIN s
    BY <1>1
  <2> QED  BY <2>1 DEF InSeq
<1>2. ASSUME s = <<>> PROVE \A x : ~InSeq(x, s)
  BY <1>2 DEF InSeq
<1> QED  BY <1>1, <1>2

-----------------------------------------------------------------------------
(* Conditions, and the lists of a node.                                      *)

Parts == Leaves \cup NodeConditions

Below(c) == Leaves \cup {d \in NodeConditions : HeightOf(d) < HeightOf(c)}

(* Leaves and nodes are told apart by their kinds.                          *)
LEMMA KindsApart ==
  /\ \A c \in Leaves : c.kind = "leaves" /\ c.of \in Seq(Comparisons) /\ ~IsNode(c)
  /\ \A c \in NodeConditions : c.kind \in Constraints /\ IsNode(c) /\ c.kind # "leaves" /\ c.kind # "leaf"
  BY DEF Leaves, NodeConditions, UrlConditions, IsNode, Constraints

(* Every node has a height.                                                 *)
LEMMA Heights ==
  \A c \in NodeConditions : HeightOf(c) \in 1 .. Nesting /\ Nesting \in Nat
<1> SUFFICES ASSUME NEW c \in NodeConditions
             PROVE  HeightOf(c) \in 1 .. Nesting /\ Nesting \in Nat
  OBVIOUS
<1>1. CASE c \in Conditions
  BY <1>1, QueryAssumption DEF HeightOf
<1>2. CASE c \notin Conditions
  BY <1>2, QueryAssumption DEF HeightOf
<1> QED  BY <1>1, <1>2

(* The conditions in a node are leaves or nodes of a lesser height.         *)
LEMMA ChildrenBelow ==
  ASSUME NEW c \in NodeConditions
  PROVE  c.of \in Seq(Below(c))
<1>1. CASE c \in Conditions
  <2>1. c \in [kind : Constraints, of : Seq(Leaves \cup Conditions)]
    BY <1>1, KindsApart, QueryAssumption
  <2>2. c.of \in Seq(Leaves \cup Conditions)
    BY <2>1
  <2>3. ASSUME NEW i \in 1 .. Len(c.of)
        PROVE  c.of[i] \in Below(c)
    <3>1. c.of[i] \in Leaves \cup Conditions
      BY <2>2
    <3>2. CASE c.of[i] \in Leaves
      BY <3>2 DEF Below
    <3>3. CASE c.of[i] \in Conditions /\ c.of[i] \notin Leaves
      <4>1. c.of[i] \in [kind : Constraints, of : Seq(Leaves \cup Conditions)]
        BY <3>3, QueryAssumption
      <4>2. c.of[i].kind \in Constraints
        BY <4>1
      <4>3. i \in DOMAIN c.of /\ c.kind \in Constraints
        BY <2>2, KindsApart
      <4>4. Height[c.of[i]] < Height[c]
        BY <1>1, <4>2, <4>3, QueryAssumption
      <4> QED  BY <1>1, <3>3, <4>2, <4>4 DEF Below, HeightOf, NodeConditions, IsNode
    <3> QED  BY <3>1, <3>2, <3>3
  <2> DEFINE s == c.of
             B == Below(c)
  <2>4. s \in Seq(Leaves \cup Conditions) /\ \A i \in 1 .. Len(s) : s[i] \in B
    BY <2>2, <2>3
  <2> HIDE DEF s, B
  <2>5. s \in Seq(B)
    BY <2>4
  <2> QED  BY <2>5 DEF s, B
<1>2. CASE c \notin Conditions
  <2>1. c \in UrlConditions
    BY <1>2 DEF NodeConditions
  <2>2. c.of \in Seq(Leaves)
    BY <2>1 DEF UrlConditions
  <2>3. Leaves \subseteq Below(c)
    BY DEF Below
  <2> QED  BY <2>2, <2>3
<1> QED  BY <1>1, <1>2

(* They are conditions Where may be given.                                  *)
LEMMA BelowAreParts ==
  \A c \in NodeConditions : Below(c) \subseteq Parts
  BY DEF Below, Parts

(* Entries of the lists of a node. *)
LeafNodes == {LeafNode(l) : l \in Comparisons}

Entries == LeafNodes \cup NodeConditions

(* A leaf of the criteria has its comparison.                               *)
LEMMA LeafNodeKinds == \A e \in LeafNodes : e.kind = "leaf" /\ e.leaf \in Comparisons /\ e = LeafNode(e.leaf)
<1> SUFFICES ASSUME NEW l \in Comparisons
             PROVE  Written(l) \in Comparisons /\ Written(Written(l)) = Written(l)
  BY DEF LeafNodes, LeafNode
<1>1. "null" \in UrlOps
  BY DEF UrlOps, NullOps
<1>2. CASE l.of = Nil /\ l.op # "notnull"
  <2> DEFINE w == [l EXCEPT !.op = "null"]
  <2>1. w \in Comparisons /\ w.of = Nil /\ w.op = "null" /\ [w EXCEPT !.op = "null"] = w
    BY <1>1, <1>2 DEF Comparisons
  <2>2. Written(l) = w
    BY <1>2 DEF Written
  <2> HIDE DEF w
  <2>3. Written(w) = w
    BY <2>1 DEF Written
  <2> QED  BY <2>1, <2>2, <2>3
<1>3. CASE ~(l.of = Nil /\ l.op # "notnull")
  BY <1>3 DEF Written
<1> QED  BY <1>2, <1>3

EntriesOf(D) == LeafNodes \cup (D \cap NodeConditions)

(* What a condition appends are leaves or the condition itself.             *)
LEMMA AppendedType ==
  ASSUME NEW D \in SUBSET Parts, NEW d \in D, NEW kind \in Constraints, NEW cs \in Constraints
  PROVE  Appended(d, kind, cs) \in Seq(EntriesOf(D))
<1>1. CASE d.kind = "leaves" /\ cs = kind
  <2>1. d.of \in Seq(Comparisons)
    BY <1>1, KindsApart DEF Parts
  <2> DEFINE s == d.of
             t == [i \in DOMAIN s |-> LeafNode(s[i])]
             L == LeafNodes
  <2>2. s \in Seq(Comparisons) /\ DOMAIN s = 1 .. Len(s) /\ Len(s) \in Nat
    BY <2>1
  <2> HIDE DEF s
  <2>3. \A i \in 1 .. Len(s) : LeafNode(s[i]) \in L
    BY <2>2 DEF LeafNodes
  <2> HIDE DEF L
  <2>4. t \in [1 .. Len(s) -> L]
    BY <2>2, <2>3
  <2> HIDE DEF t
  <2>5. t \in Seq(L)
    BY <2>2, <2>4
  <2>6. t \in Seq(EntriesOf(D))
    BY <2>5 DEF EntriesOf, L
  <2>8. d.kind # cs
    BY <1>1 DEF Constraints
  <2>9. Appended(d, kind, cs) = [i \in DOMAIN d.of |-> LeafNode(d.of[i])]
    BY <1>1, <2>8 DEF Appended
  <2>7. Appended(d, kind, cs) = t
    BY <2>9 DEF t, s
  <2> QED  BY <2>6, <2>7
<1>2. CASE ~(d.kind = "leaves" /\ cs = kind) /\ d.kind = cs /\ d.of # <<>>
  <2>1. d \in NodeConditions
    BY <1>2, KindsApart DEF Parts, Constraints
  <2>2. Appended(d, kind, cs) = <<d>>
    BY <1>2 DEF Appended
  <2> QED  BY <2>1, <2>2 DEF EntriesOf
<1>3. CASE ~(d.kind = "leaves" /\ cs = kind) /\ ~(d.kind = cs /\ d.of # <<>>)
  BY <1>3 DEF Appended
<1> QED  BY <1>1, <1>2, <1>3

InAppended(e, d, kind, cs) ==
    \/ d.kind = "leaves" /\ cs = kind /\ \E l \in ToSet(d.of) : e = LeafNode(l)
    \/ d.kind = cs /\ d.of # <<>> /\ e = d

(* Under its constraint each condition appends the entries it should.       *)
LEMMA AppendedHas ==
  ASSUME NEW d \in Parts, NEW kind \in Constraints, NEW cs \in Constraints, NEW e
  PROVE  InSeq(e, Appended(d, kind, cs)) <=> InAppended(e, d, kind, cs)
<1>1. CASE d.kind = "leaves" /\ cs = kind
  <2>1. d.kind # cs
    BY <1>1 DEF Constraints
  <2>2. Appended(d, kind, cs) = [i \in DOMAIN d.of |-> LeafNode(d.of[i])]
    BY <1>1, <2>1 DEF Appended
  <2>3. InSeq(e, Appended(d, kind, cs)) <=> \E i \in DOMAIN d.of : e = LeafNode(d.of[i])
    BY <2>2 DEF InSeq
  <2> QED  BY <1>1, <2>1, <2>3 DEF InAppended, ToSet
<1>2. CASE ~(d.kind = "leaves" /\ cs = kind) /\ d.kind = cs /\ d.of # <<>>
  <2>2. Appended(d, kind, cs) = <<d>>
    BY <1>2 DEF Appended
  <2> QED  BY <1>2, <2>2 DEF InAppended, InSeq
<1>3. CASE ~(d.kind = "leaves" /\ cs = kind) /\ ~(d.kind = cs /\ d.of # <<>>)
  <2>1. Appended(d, kind, cs) = <<>>
    BY <1>3 DEF Appended
  <2> QED  BY <1>3, <2>1 DEF InAppended, InSeq
<1> QED  BY <1>1, <1>2, <1>3

(* The list of a node of the given kind. *)
ListOf(s, kind, cs) == FlattenSeq([i \in DOMAIN s |-> Appended(s[i], kind, cs)])

(* A list gathers what the conditions of the node append.                   *)
LEMMA ListIsGathered ==
  ASSUME NEW D \in SUBSET Parts, NEW s \in Seq(D), NEW kind \in Constraints, NEW cs \in Constraints
  PROVE  /\ [d \in D |-> Appended(d, kind, cs)] \in [D -> Seq(EntriesOf(D))]
         /\ ListOf(s, kind, cs) = Gather(s, [d \in D |-> Appended(d, kind, cs)])
<1>1. \A i \in DOMAIN s : s[i] \in D
  OBVIOUS
<1>2. [i \in DOMAIN s |-> Appended(s[i], kind, cs)] = Each(s, [d \in D |-> Appended(d, kind, cs)])
  BY <1>1 DEF Each
<1>3. [d \in D |-> Appended(d, kind, cs)] \in [D -> Seq(EntriesOf(D))]
  BY AppendedType
<1> QED  BY <1>2, <1>3 DEF ListOf, Gather

(* Its entries are theirs.                                                  *)
LEMMA ListType ==
  ASSUME NEW D \in SUBSET Parts, NEW s \in Seq(D), NEW kind \in Constraints, NEW cs \in Constraints
  PROVE  ListOf(s, kind, cs) \in Seq(EntriesOf(D))
<1> DEFINE h == [d \in D |-> Appended(d, kind, cs)]
           B == EntriesOf(D)
<1>1. h \in [D -> Seq(B)] /\ ListOf(s, kind, cs) = Gather(s, h)
  BY ListIsGathered
<1> HIDE DEF h, B
<1>2. Gather(s, h) \in Seq(B)
  BY <1>1, GatherType
<1> QED  BY <1>1, <1>2 DEF B

(* An entry of the list was appended by one of the conditions.              *)
LEMMA ListHas ==
  ASSUME NEW s \in Seq(Parts), NEW kind \in Constraints, NEW cs \in Constraints, NEW e
  PROVE  InSeq(e, ListOf(s, kind, cs)) <=> \E i \in DOMAIN s : InAppended(e, s[i], kind, cs)
<1> DEFINE h == [d \in Parts |-> Appended(d, kind, cs)]
<1>1. h \in [Parts -> Seq(EntriesOf(Parts))] /\ ListOf(s, kind, cs) = Gather(s, h)
  BY ListIsGathered
<1>2. \A i \in DOMAIN s : s[i] \in Parts /\ h[s[i]] = Appended(s[i], kind, cs)
  OBVIOUS
<1> HIDE DEF h
<1>3. InSeq(e, Gather(s, h)) <=> \E i \in DOMAIN s : InSeq(e, h[s[i]])
  BY <1>1, InGather
<1> QED  BY <1>1, <1>2, <1>3, AppendedHas

-----------------------------------------------------------------------------
(* Texts, and the arguments that go with them.                               *)

Args == Comparisons \X {1, 2}

Texts ==
    [reads : Seq(Comparisons), args : Seq(Args), holds : [SUBSET Comparisons -> BOOLEAN]]

argsOf == [l \in Comparisons |-> ArgsOf(l)]

ArgsFor(reads) == Gather(reads, argsOf)

Matched == {t \in Texts : t.args = ArgsFor(t.reads)}

(* A comparison has arguments of its own.                                   *)
LEMMA ArgsOfType == argsOf \in [Comparisons -> Seq(Args)]
<1> SUFFICES ASSUME NEW l \in Comparisons PROVE ArgsOf(l) \in Seq(Args)
  BY DEF argsOf
<1>1. <<l, 1>> \in Args /\ <<l, 2>> \in Args
  BY DEF Args
<1> HIDE DEF Args
<1>2. <<<<l, 1>>, <<l, 2>>>> \in Seq(Args)
  BY <1>1
<1>3. <<<<l, 1>>>> \in Seq(Args) /\ <<>> \in Seq(Args)
  BY <1>1
<1>4. CASE l.of # Nil /\ l.op = "in"
  BY <1>2, <1>4 DEF ArgsOf
<1>5. CASE l.of = Nil
  BY <1>3, <1>5 DEF ArgsOf
<1>6. CASE l.of # Nil /\ l.op # "in"
  BY <1>3, <1>6 DEF ArgsOf
<1> QED  BY <1>4, <1>5, <1>6

(* The text of a comparison has the arguments of it.                        *)
LEMMA LeafTextMatched ==
  ASSUME NEW l \in Comparisons
  PROVE  LeafText(l) \in Matched /\ LeafText(l).reads = <<l>>
<1>1. ArgsOf(l) \in Seq(Args) /\ argsOf[l] = ArgsOf(l)
  BY ArgsOfType DEF argsOf
<1>2. <<l>> \in Seq(Comparisons) /\ <<l>> = Append(<<>>, l) /\ <<>> \in Seq(Comparisons)
  OBVIOUS
<1>3. Gather(<<l>>, argsOf) = Gather(<<>>, argsOf) \o argsOf[l]
  BY <1>2, ArgsOfType, GatherAppend
<1>4. ArgsFor(<<l>>) = ArgsOf(l)
  <2>1. Gather(<<>>, argsOf) = <<>>
    BY GatherEmpty
  <2> QED  BY <1>1, <1>3, <2>1 DEF ArgsFor
<1>5. LeafText(l) \in Texts
  BY <1>1, <1>2 DEF LeafText, Texts
<1> QED  BY <1>4, <1>5 DEF LeafText, Matched

readsIn == [t \in Texts |-> t.reads]
argsIn  == [t \in Texts |-> t.args]

(* Fields of a text.                                                        *)
LEMMA TextFields ==
  /\ readsIn \in [Texts -> Seq(Comparisons)]
  /\ argsIn \in [Texts -> Seq(Args)]
  /\ \A t \in Texts : t.holds \in [SUBSET Comparisons -> BOOLEAN]
  BY DEF readsIn, argsIn, Texts

(* Joined texts read, and take arguments, one after the other.              *)
LEMMA JoinedGathers ==
  ASSUME NEW ts \in Seq(Texts), NEW cs
  PROVE  /\ Joined(cs, ts).reads = Gather(ts, readsIn)
         /\ Joined(cs, ts).args = Gather(ts, argsIn)
<1>1. \A i \in DOMAIN ts : ts[i] \in Texts
  OBVIOUS
<1>2. [i \in DOMAIN ts |-> ts[i].reads] = Each(ts, readsIn)
  BY <1>1 DEF Each, readsIn
<1>3. [i \in DOMAIN ts |-> ts[i].args] = Each(ts, argsIn)
  BY <1>1 DEF Each, argsIn
<1> QED  BY <1>2, <1>3 DEF Joined, Gather

(* Joined texts are a text.                                                 *)
LEMMA JoinedType ==
  ASSUME NEW ts \in Seq(Texts), NEW cs
  PROVE  Joined(cs, ts) \in Texts
<1>0. readsIn \in [Texts -> Seq(Comparisons)] /\ argsIn \in [Texts -> Seq(Args)]
  BY TextFields
<1>1. Joined(cs, ts).reads \in Seq(Comparisons)
  <2>1. Gather(ts, readsIn) \in Seq(Comparisons)
    BY <1>0, GatherType
  <2> QED  BY <2>1, JoinedGathers
<1>2. Joined(cs, ts).args \in Seq(Args)
  <2>1. Gather(ts, argsIn) \in Seq(Args)
    BY <1>0, GatherType
  <2> QED  BY <2>1, JoinedGathers
<1>3. Joined(cs, ts).holds \in [SUBSET Comparisons -> BOOLEAN]
  BY DEF Joined
<1>4. Joined(cs, ts) = [reads |-> Joined(cs, ts).reads, args |-> Joined(cs, ts).args,
                        holds |-> Joined(cs, ts).holds]
  BY DEF Joined
<1> QED  BY <1>1, <1>2, <1>3, <1>4 DEF Texts

(* Arguments match what is read if those of each text do.                   *)
LEMMA GatheredArgs ==
  ASSUME NEW ts \in Seq(Matched)
  PROVE  Gather(ts, argsIn) = ArgsFor(Gather(ts, readsIn))
<1> DEFINE T == {u \in Seq(Matched) : Gather(u, argsIn) = ArgsFor(Gather(u, readsIn))}
<1>1. <<>> \in T
  <2>1. <<>> \in Seq(Matched)
    OBVIOUS
  <2> QED  BY <2>1, GatherEmpty DEF ArgsFor
<1>2. ASSUME NEW u \in Seq(Matched), NEW t \in Matched, u \in T
      PROVE  Append(u, t) \in T
  <2>1. /\ u \in Seq(Texts) /\ t \in Texts /\ t.args = ArgsFor(t.reads)
        /\ readsIn[t] = t.reads /\ argsIn[t] = t.args
    BY DEF Matched, readsIn, argsIn
  <2>7. readsIn \in [Texts -> Seq(Comparisons)] /\ argsIn \in [Texts -> Seq(Args)]
    BY TextFields
  <2>2. Gather(Append(u, t), argsIn) = Gather(u, argsIn) \o t.args
    <3>1. Gather(Append(u, t), argsIn) = Gather(u, argsIn) \o argsIn[t]
      BY <2>1, <2>7, GatherAppend
    <3> QED  BY <2>1, <3>1
  <2>3. Gather(Append(u, t), readsIn) = Gather(u, readsIn) \o t.reads
    <3>1. Gather(Append(u, t), readsIn) = Gather(u, readsIn) \o readsIn[t]
      BY <2>1, <2>7, GatherAppend
    <3> QED  BY <2>1, <3>1
  <2>4. Gather(u, readsIn) \in Seq(Comparisons) /\ t.reads \in Seq(Comparisons)
    BY <2>1, TextFields, GatherType
  <2>5. ArgsFor(Gather(u, readsIn) \o t.reads) = ArgsFor(Gather(u, readsIn)) \o ArgsFor(t.reads)
    BY <2>4, ArgsOfType, GatherConcat DEF ArgsFor
  <2>6. Append(u, t) \in Seq(Matched)
    OBVIOUS
  <2> QED  BY <1>2, <2>1, <2>2, <2>3, <2>5, <2>6
<1> HIDE DEF T
<1>3. Seq(Matched) \subseteq T
  BY <1>1, <1>2, SeqInduction
<1> QED  BY <1>3 DEF T

(* Joining keeps arguments at their placeholders.                           *)
LEMMA JoinedMatched ==
  ASSUME NEW ts \in Seq(Matched), NEW cs
  PROVE  Joined(cs, ts) \in Matched
<1>1. ts \in Seq(Texts)
  BY DEF Matched
<1> QED  BY <1>1, GatheredArgs, JoinedGathers, JoinedType DEF Matched

(* Joined texts are empty if each of them is.                               *)
LEMMA JoinedReads ==
  ASSUME NEW ts \in Seq(Texts), NEW cs
  PROVE  Joined(cs, ts).reads = <<>> <=> \A i \in DOMAIN ts : ts[i].reads = <<>>
<1>1. Gather(ts, readsIn) \in Seq(Comparisons)
  BY TextFields, GatherType
<1>2. \A i \in DOMAIN ts : ts[i] \in Texts /\ readsIn[ts[i]] = ts[i].reads /\ ts[i].reads \in Seq(Comparisons)
  <2>1. \A i \in DOMAIN ts : ts[i] \in Texts
    OBVIOUS
  <2>2. \A t \in Texts : readsIn[t] = t.reads /\ t.reads \in Seq(Comparisons)
    BY DEF readsIn, Texts
  <2> QED  BY <2>1, <2>2
<1>3. \A x : InSeq(x, Gather(ts, readsIn)) <=> \E i \in DOMAIN ts : InSeq(x, ts[i].reads)
  BY <1>2, TextFields, InGather
<1>4. \A i \in DOMAIN ts : ts[i].reads = <<>> <=> \A x : ~InSeq(x, ts[i].reads)
  BY <1>2, NothingIn
<1>5. Gather(ts, readsIn) = <<>> <=> \A x : ~InSeq(x, Gather(ts, readsIn))
  BY <1>1, NothingIn
<1> QED  BY <1>3, <1>4, <1>5, JoinedGathers

(* The texts of the entries of a list. *)
IsText(e, built) == e.kind # "leaf" => built[e] \in Matched

HaveTexts(E, built) == \A e \in E : IsText(e, built)

nonempty(E, built) == [e \in E |-> Nonempty(ChildText(e, built))]

(* Entries have texts with their arguments in place.                        *)
LEMMA NonemptyType ==
  ASSUME NEW E \in SUBSET Entries, NEW built, HaveTexts(E, built)
  PROVE  /\ \A e \in E : ChildText(e, built) \in Matched
         /\ nonempty(E, built) \in [E -> Seq(Matched)]
<1>1. ASSUME NEW e \in E
      PROVE  ChildText(e, built) \in Matched /\ Nonempty(ChildText(e, built)) \in Seq(Matched)
  <2>1. CASE e \in LeafNodes
    BY <2>1, LeafNodeKinds, LeafTextMatched DEF ChildText, Nonempty
  <2>2. CASE e \in NodeConditions
    <3>1. e.kind # "leaf"
      BY <2>2, KindsApart
    <3> QED  BY <3>1 DEF ChildText, Nonempty, IsText, HaveTexts
  <2> QED  BY <2>1, <2>2 DEF Entries
<1> QED  BY <1>1 DEF nonempty

GroupTexts(s, built) == FlattenSeq([i \in DOMAIN s |-> Nonempty(ChildText(s[i], built))])

(* The texts of a group, gathered.                                          *)
LEMMA GroupGathers ==
  ASSUME NEW E, NEW s \in Seq(E), NEW built
  PROVE  GroupTexts(s, built) = Gather(s, nonempty(E, built))
<1>1. \A i \in DOMAIN s : s[i] \in E
  OBVIOUS
<1>2. [i \in DOMAIN s |-> Nonempty(ChildText(s[i], built))] = Each(s, nonempty(E, built))
  BY <1>1 DEF Each, nonempty
<1> QED  BY <1>2 DEF GroupTexts, Gather

(* Each has its arguments in place.                                         *)
LEMMA GroupTextsMatched ==
  ASSUME NEW E \in SUBSET Entries, NEW built, HaveTexts(E, built), NEW s \in Seq(E)
  PROVE  GroupTexts(s, built) \in Seq(Matched)
<1> DEFINE h == nonempty(E, built)
<1>1. h \in [E -> Seq(Matched)]
  BY NonemptyType
<1>2. GroupTexts(s, built) = Gather(s, h)
  BY GroupGathers
<1> HIDE DEF h
<1> QED  BY <1>1, <1>2, GatherType

(* The texts of a group are those of its entries that are not empty.        *)
LEMMA GroupHas ==
  ASSUME NEW E \in SUBSET Entries, NEW built, HaveTexts(E, built), NEW s \in Seq(E), NEW t
  PROVE  InSeq(t, GroupTexts(s, built)) <=>
            \E i \in DOMAIN s : t = ChildText(s[i], built) /\ t.reads # <<>>
<1>1. InSeq(t, GroupTexts(s, built)) <=> \E i \in DOMAIN s : InSeq(t, nonempty(E, built)[s[i]])
  <2> DEFINE h == nonempty(E, built)
  <2>1. h \in [E -> Seq(Matched)]
    BY NonemptyType
  <2>2. GroupTexts(s, built) = Gather(s, h)
    BY GroupGathers
  <2> HIDE DEF h
  <2>3. InSeq(t, Gather(s, h)) <=> \E i \in DOMAIN s : InSeq(t, h[s[i]])
    BY <2>1, InGather
  <2> QED  BY <2>2, <2>3 DEF h
<1>2. \A i \in DOMAIN s : nonempty(E, built)[s[i]] = Nonempty(ChildText(s[i], built))
  BY DEF nonempty
<1>3. \A u : InSeq(t, Nonempty(u)) <=> t = u /\ t.reads # <<>>
  BY DEF Nonempty, InSeq
<1> QED  BY <1>1, <1>2, <1>3

(* A group is its texts, joined.                                            *)
LEMMA GroupIs ==
  ASSUME NEW lists, NEW cs, NEW built
  PROVE  Group(cs, lists, built) = Joined(cs, GroupTexts(lists[cs], built))
  BY DEF Group, GroupTexts

(* A map has both lists, in one order or the other.                         *)
LEMMA OrderIs ==
  \A order \in Orders : \/ order[1] = "and" /\ order[2] = "or"
                        \/ order[1] = "or" /\ order[2] = "and"
  BY DEF Orders

(* In either order of the map the arguments of a node are at their placeholders.*)
LEMMA NodeTextMatched ==
  ASSUME NEW E \in SUBSET Entries, NEW built, HaveTexts(E, built),
         NEW lists \in [Constraints -> Seq(E)], NEW order \in Orders, NEW kind
  PROVE  NodeText(kind, lists, order, built) \in Matched
<1>1. ASSUME NEW cs \in Constraints
      PROVE  Group(cs, lists, built) \in Matched /\ Nonempty(Group(cs, lists, built)) \in Seq(Matched)
  <2>1. lists[cs] \in Seq(E)
    OBVIOUS
  <2>2. Group(cs, lists, built) \in Matched
    BY <2>1, GroupIs, GroupTextsMatched, JoinedMatched
  <2> QED  BY <2>2 DEF Nonempty
<1>2. order[1] \in Constraints /\ order[2] \in Constraints
  BY OrderIs DEF Constraints
<1>3. Nonempty(Group(order[1], lists, built)) \o Nonempty(Group(order[2], lists, built)) \in Seq(Matched)
  <2> DEFINE a == Nonempty(Group(order[1], lists, built))
             b == Nonempty(Group(order[2], lists, built))
  <2>1. a \in Seq(Matched) /\ b \in Seq(Matched)
    BY <1>1, <1>2
  <2> HIDE DEF a, b
  <2>2. a \o b \in Seq(Matched)
    BY <2>1
  <2> QED  BY <2>2 DEF a, b
<1> QED  BY <1>3, JoinedMatched DEF NodeText

(* The text of a node depends on the nodes in its lists only. *)
Agree(E, built, other) == \A e \in E : e.kind # "leaf" => built[e] = other[e]

LEMMA NodeTextDepends ==
  ASSUME NEW E, NEW built, NEW other, Agree(E, built, other),
         NEW lists \in [Constraints -> Seq(E)], NEW order \in Orders, NEW kind
  PROVE  NodeText(kind, lists, order, built) = NodeText(kind, lists, order, other)
<1>1. ASSUME NEW cs \in Constraints
      PROVE  Group(cs, lists, built) = Group(cs, lists, other)
  <2>1. lists[cs] \in Seq(E)
    OBVIOUS
  <2>2. \A i \in DOMAIN lists[cs] : lists[cs][i] \in E
    BY <2>1
  <2>3. \A i \in DOMAIN lists[cs] : ChildText(lists[cs][i], built) = ChildText(lists[cs][i], other)
    BY <2>2 DEF ChildText, Agree
  <2>4. [i \in DOMAIN lists[cs] |-> Nonempty(ChildText(lists[cs][i], built))]
          = [i \in DOMAIN lists[cs] |-> Nonempty(ChildText(lists[cs][i], other))]
    BY <2>3
  <2> QED  BY <2>4 DEF Group
<1>2. order[1] \in Constraints /\ order[2] \in Constraints
  BY OrderIs DEF Constraints
<1> QED  BY <1>1, <1>2 DEF NodeText

-----------------------------------------------------------------------------
(* The text Build makes.                                                    *)

heights == [c \in NodeConditions |-> HeightOf(c)]

(* Heights are a rank.                                                      *)
LEMMA HeightsType ==
  /\ Nesting \in Nat
  /\ heights \in [NodeConditions -> 0 .. Nesting]
  /\ heights \in [NodeConditions -> Nat]
<1>1. Nesting \in Nat
  BY QueryAssumption
<1>2. \A c \in NodeConditions : HeightOf(c) \in 0 .. Nesting /\ HeightOf(c) \in Nat
  BY <1>1, Heights
<1> QED  BY <1>1, <1>2 DEF heights

(* The nodes that may be in the lists of the node c makes. *)
EntriesBelow(c) == EntriesOf(Below(c))

(* A node in the lists of another has a lesser height.                      *)
LEMMA EntriesAreBelow ==
  ASSUME NEW c \in NodeConditions, NEW e \in EntriesBelow(c)
  PROVE  /\ e \in Entries
         /\ e.kind # "leaf" => e \in NodeConditions /\ heights[e] < heights[c]
<1>1. CASE e \in LeafNodes
  BY <1>1, LeafNodeKinds DEF Entries
<1>2. CASE e \notin LeafNodes
  <2>1. e \in Below(c) /\ e \in NodeConditions
    BY <1>2 DEF EntriesBelow, EntriesOf
  <2>2. e \notin Leaves
    BY <2>1, KindsApart
  <2> QED  BY <2>1, <2>2 DEF Below, Entries, heights
<1> QED  BY <1>1, <1>2

(* The lists of a node are those of its conditions.                         *)
LEMMA ChildrenAre ==
  ASSUME NEW c
  PROVE  Children(c) = [cs \in Constraints |-> ListOf(c.of, c.kind, cs)]
  BY DEF Children, ListOf

(* Their entries are below it.                                              *)
LEMMA ChildrenType ==
  ASSUME NEW c \in NodeConditions
  PROVE  Children(c) \in [Constraints -> Seq(EntriesBelow(c))]
<1>1. c.of \in Seq(Below(c)) /\ Below(c) \in SUBSET Parts /\ c.kind \in Constraints
  BY ChildrenBelow, BelowAreParts, KindsApart
<1>2. \A cs \in Constraints : ListOf(c.of, c.kind, cs) \in Seq(EntriesBelow(c))
  BY <1>1, ListType DEF EntriesBelow
<1> QED  BY <1>2, ChildrenAre

buildStep(order) ==
    [c \in NodeConditions |->
        [b \in [NodeConditions -> Matched] |->
            NodeText(c.kind, Children(c), order[HeightOf(c)], b)]]

BuiltBy(order, b) ==
    b = [c \in NodeConditions |-> NodeText(c.kind, Children(c), order[HeightOf(c)], b)]

(* Every node, and the root, has an order of its map.                       *)
LEMMA OrderAt ==
  ASSUME NEW order \in RangeOrders
  PROVE  /\ \A c \in NodeConditions : order[HeightOf(c)] \in Orders
         /\ order[Nesting + 1] \in Orders
<1>1. Nesting \in Nat /\ Nesting + 1 \in 1 .. Nesting + 1
  BY QueryAssumption
<1>2. \A c \in NodeConditions : HeightOf(c) \in 1 .. Nesting + 1
  BY <1>1, Heights
<1> QED  BY <1>1, <1>2 DEF RangeOrders

(* A node has its arguments in place if those below have.                   *)
LEMMA NodeMatched ==
  ASSUME NEW order \in RangeOrders, NEW c \in NodeConditions, NEW b,
         \A d \in NodeConditions : heights[d] < heights[c] => b[d] \in Matched
  PROVE  NodeText(c.kind, Children(c), order[HeightOf(c)], b) \in Matched
<1> DEFINE E == EntriesBelow(c)
<1>1. \A e \in E : e \in Entries /\ IsText(e, b)
  BY EntriesAreBelow DEF IsText
<1>2. Children(c) \in [Constraints -> Seq(E)] /\ order[HeightOf(c)] \in Orders
  BY ChildrenType, OrderAt
<1> HIDE DEF E
<1>3. E \in SUBSET Entries /\ HaveTexts(E, b)
  BY <1>1 DEF HaveTexts
<1> QED  BY <1>2, <1>3, NodeTextMatched

(* One step of the recursion in Build.                                      *)
LEMMA BuildStepType ==
  ASSUME NEW order \in RangeOrders
  PROVE  buildStep(order) \in [NodeConditions -> [[NodeConditions -> Matched] -> Matched]]
<1>1. ASSUME NEW c \in NodeConditions, NEW b \in [NodeConditions -> Matched]
      PROVE  NodeText(c.kind, Children(c), order[HeightOf(c)], b) \in Matched
  BY NodeMatched
<1> QED  BY <1>1 DEF buildStep

(* It needs the nodes below only.                                           *)
LEMMA BuildStepLooksBelow ==
  ASSUME NEW order \in RangeOrders
  PROVE  LooksBelow(NodeConditions, Matched, heights, buildStep(order))
<1> SUFFICES ASSUME NEW c \in NodeConditions,
                    NEW a \in [NodeConditions -> Matched], NEW b \in [NodeConditions -> Matched],
                    \A d \in NodeConditions : heights[d] < heights[c] => a[d] = b[d]
             PROVE  NodeText(c.kind, Children(c), order[HeightOf(c)], a)
                      = NodeText(c.kind, Children(c), order[HeightOf(c)], b)
  BY DEF LooksBelow, buildStep
<1> DEFINE E == EntriesBelow(c)
<1>1. Agree(E, a, b)
  BY EntriesAreBelow DEF Agree
<1>2. Children(c) \in [Constraints -> Seq(E)] /\ order[HeightOf(c)] \in Orders
  BY ChildrenType, OrderAt
<1> HIDE DEF E
<1> QED  BY <1>1, <1>2, NodeTextDepends

(* There is a text.                                                         *)
LEMMA SomeText == Matched # {}
<1>1. <<>> \in Seq(Matched)
  OBVIOUS
<1>2. Joined("and", <<>>) \in Matched
  BY <1>1, JoinedMatched
<1> QED  BY <1>2

(* So what Build defines exists,                                            *)
LEMMA BuiltExists ==
  ASSUME NEW order \in RangeOrders
  PROVE  \E b : BuiltBy(order, b)
<1> DEFINE D == NodeConditions
           U == Matched
           step == buildStep(order)
<1>1. step \in [D -> [[D -> U] -> U]] /\ LooksBelow(D, U, heights, step)
  BY BuildStepType, BuildStepLooksBelow
<1>2. U # {} /\ Nesting \in Nat /\ heights \in [D -> 0 .. Nesting]
  BY SomeText, HeightsType
<1> HIDE DEF D, U, step
<1>3. PICK b \in [D -> U] : IsSolution(D, step, b)
  BY <1>1, <1>2, RecursionHasSolution
<1>4. \A c \in NodeConditions : b[c] = NodeText(c.kind, Children(c), order[HeightOf(c)], b)
  BY <1>3 DEF IsSolution, step, buildStep, D, U
<1>5. b = [c \in NodeConditions |-> b[c]]
  BY <1>3 DEF D
<1>6. BuiltBy(order, b)
  BY <1>4, <1>5 DEF BuiltBy
<1> QED  BY <1>6

(* has arguments in place for each node,                                    *)
LEMMA BuiltMatched ==
  ASSUME NEW order \in RangeOrders, NEW b, BuiltBy(order, b)
  PROVE  b \in [NodeConditions -> Matched]
<1> DEFINE D == NodeConditions
           T == {c \in D : b[c] \in Matched}
<1>1. \A c \in D : b[c] = NodeText(c.kind, Children(c), order[HeightOf(c)], b)
  BY DEF BuiltBy
<1>2. ASSUME NEW c \in D, \A d \in D : heights[d] < heights[c] => d \in T
      PROVE  c \in T
  <2>1. NodeText(c.kind, Children(c), order[HeightOf(c)], b) \in Matched
    BY <1>2, NodeMatched
  <2> QED  BY <1>1, <2>1
<1>3. heights \in [D -> Nat]
  BY HeightsType
<1> HIDE DEF T, D
<1>4. Progressive(D, heights, T)
  BY <1>2 DEF Progressive
<1>5. D \subseteq T
  BY <1>3, <1>4, RankInduction
<1>6. b = [c \in D |-> b[c]]
  BY DEF BuiltBy, D
<1> QED  BY <1>5, <1>6 DEF T, D

(* and is what Build uses.                                                  *)
LEMMA BuildBuilds ==
  ASSUME NEW order \in RangeOrders
  PROVE  \E b \in [NodeConditions -> Matched] :
            BuiltBy(order, b) /\ Build(order) = NodeText("and", where[1], order[Nesting + 1], b)
<1> DEFINE b == CHOOSE b : BuiltBy(order, b)
<1>1. BuiltBy(order, b)
  BY BuiltExists
<1>2. Build(order) = NodeText("and", where[1], order[Nesting + 1], b)
  BY Zenon DEF Build, BuiltBy
<1> HIDE DEF b
<1>3. b \in [NodeConditions -> Matched]
  BY <1>1, BuiltMatched
<1> QED  BY <1>1, <1>2, <1>3

(* The lists below the root hold what was asked. *)
WhereIs ==
    /\ asked \in Seq(Parts)
    /\ where # <<>> => where[1] = [cs \in Constraints |-> ListOf(asked, "and", cs)]

(* What conditions make are entries.                                        *)
LEMMA EntriesOfParts == EntriesOf(Parts) \subseteq Entries
  BY DEF EntriesOf, Entries

(* The root has lists of entries, too.                                      *)
LEMMA RootType ==
  ASSUME WhereIs, where # <<>>
  PROVE  where[1] \in [Constraints -> Seq(EntriesOf(Parts))]
<1>1. \A cs \in Constraints : ListOf(asked, "and", cs) \in Seq(EntriesOf(Parts))
  BY ListType DEF WhereIs, Constraints
<1> QED  BY <1>1 DEF WhereIs

(* The clause has its arguments in place, whatever the order of each map.   *)
LEMMA ClauseMatched ==
  ASSUME WhereIs, where # <<>>, NEW order \in RangeOrders
  PROVE  Build(order) \in Matched
<1> DEFINE E == EntriesOf(Parts)
<1>1. PICK b \in [NodeConditions -> Matched] :
         BuiltBy(order, b) /\ Build(order) = NodeText("and", where[1], order[Nesting + 1], b)
  BY BuildBuilds
<1>2. E \in SUBSET Entries
  BY EntriesOfParts
<1>3. \A e \in E : IsText(e, b)
  BY LeafNodeKinds DEF IsText, EntriesOf
<1>4. where[1] \in [Constraints -> Seq(E)] /\ order[Nesting + 1] \in Orders
  BY RootType, OrderAt
<1> HIDE DEF E
<1>5. HaveTexts(E, b)
  BY <1>3 DEF HaveTexts
<1>6. NodeText("and", where[1], order[Nesting + 1], b) \in Matched
  BY <1>2, <1>4, <1>5, NodeTextMatched
<1> QED  BY <1>1, <1>6

(* ArgumentsMatchText, from what where is.                                  *)
LEMMA WhereIsMatches == WhereIs => ArgumentsMatchText
<1> SUFFICES ASSUME WhereIs, where # <<>>, NEW order \in RangeOrders
             PROVE  Build(order).args =
                       FlattenSeq([i \in DOMAIN Build(order).reads |-> ArgsOf(Build(order).reads[i])])
  BY Zenon DEF ArgumentsMatchText
<1> DEFINE reads == Build(order).reads
<1>1. reads \in Seq(Comparisons) /\ Build(order).args = ArgsFor(reads)
  BY ClauseMatched DEF Matched, Texts
<1> HIDE DEF reads
<1>2. \A i \in DOMAIN reads : argsOf[reads[i]] = ArgsOf(reads[i])
  BY <1>1 DEF argsOf
<1>3. Each(reads, argsOf) = [i \in DOMAIN reads |-> ArgsOf(reads[i])]
  BY <1>2 DEF Each
<1> QED  BY <1>1, <1>3, Zenon DEF ArgsFor, Gather, reads

-----------------------------------------------------------------------------
(* What conditions say, and which are regrouped.                            *)

(* A condition in a node is a leaf or a node of a lesser height.            *)
LEMMA PartOf ==
  ASSUME NEW c \in NodeConditions, NEW i \in DOMAIN c.of
  PROVE  /\ c.of[i] \in Parts
         /\ IsNode(c.of[i]) => c.of[i] \in NodeConditions /\ heights[c.of[i]] < heights[c]
         /\ ~IsNode(c.of[i]) => c.of[i] \in Leaves
<1>1. c.of[i] \in Below(c)
  <2> DEFINE s == c.of
             B == Below(c)
  <2>1. s \in Seq(B) /\ i \in DOMAIN s
    BY ChildrenBelow
  <2> HIDE DEF s, B
  <2>2. s[i] \in B
    BY <2>1
  <2> QED  BY <2>2 DEF s, B
<1>2. c.of[i] \in Parts
  BY <1>1, BelowAreParts
<1>3. CASE c.of[i] \in Leaves
  BY <1>2, <1>3, KindsApart
<1>4. CASE c.of[i] \notin Leaves
  BY <1>1, <1>2, <1>4, KindsApart DEF Below, heights
<1> QED  BY <1>3, <1>4

(* Leaves say comparisons.                                                  *)
LEMMA LeavesSay ==
  ASSUME NEW c \in Leaves
  PROVE  ToSet(c.of) \in SUBSET Comparisons
<1> DEFINE s == c.of
<1>1. s \in Seq(Comparisons)
  BY KindsApart
<1> HIDE DEF s
<1>2. ToSet(s) \in SUBSET Comparisons
  BY <1>1 DEF ToSet
<1> QED  BY <1>2 DEF s

saysPart(f, d) == IF IsNode(d) THEN f[d] ELSE ToSet(d.of)

Says(f, c) == UNION {saysPart(f, c.of[i]) : i \in DOMAIN c.of}

SaysOf(f) == f = [c \in NodeConditions |-> Says(f, c)]

sayStep == [c \in NodeConditions |-> [f \in [NodeConditions -> SUBSET Comparisons] |-> Says(f, c)]]

(* What a node says are comparisons.                                        *)
LEMMA SaysType ==
  ASSUME NEW c \in NodeConditions, NEW f,
         \A d \in NodeConditions : heights[d] < heights[c] => f[d] \in SUBSET Comparisons
  PROVE  Says(f, c) \in SUBSET Comparisons
<1>1. ASSUME NEW i \in DOMAIN c.of
      PROVE  saysPart(f, c.of[i]) \in SUBSET Comparisons
  BY PartOf, LeavesSay DEF saysPart
<1> QED  BY <1>1 DEF Says

(* It depends on the nodes in it only.                                      *)
LEMMA SaysDepends ==
  ASSUME NEW c \in NodeConditions, NEW f, NEW g,
         \A d \in NodeConditions : heights[d] < heights[c] => f[d] = g[d]
  PROVE  Says(f, c) = Says(g, c)
<1>1. \A i \in DOMAIN c.of : saysPart(f, c.of[i]) = saysPart(g, c.of[i])
  BY PartOf DEF saysPart
<1> QED  BY <1>1 DEF Says

(* So SaidBy is defined,                                                    *)
LEMMA SomethingSaid == \E f : SaysOf(f)
<1> DEFINE D == NodeConditions
           U == SUBSET Comparisons
<1>1. sayStep \in [D -> [[D -> U] -> U]]
  <2>1. ASSUME NEW c \in D, NEW f \in [D -> U]
        PROVE  Says(f, c) \in U
    BY SaysType
  <2> HIDE DEF U
  <2> QED  BY <2>1 DEF sayStep, U
<1>2. LooksBelow(D, U, heights, sayStep)
  <2>1. ASSUME NEW c \in D, NEW f \in [D -> U], NEW g \in [D -> U],
               \A d \in D : heights[d] < heights[c] => f[d] = g[d]
        PROVE  Says(f, c) = Says(g, c)
    BY <2>1, SaysDepends
  <2> QED  BY <2>1 DEF LooksBelow, sayStep
<1>3. U # {} /\ Nesting \in Nat /\ heights \in [D -> 0 .. Nesting]
  BY HeightsType
<1> HIDE DEF D, U
<1>4. PICK f \in [D -> U] : IsSolution(D, sayStep, f)
  BY <1>1, <1>2, <1>3, RecursionHasSolution
<1>5. \A c \in NodeConditions : f[c] = Says(f, c)
  BY <1>4 DEF IsSolution, sayStep, D, U
<1>6. f = [c \in NodeConditions |-> f[c]]
  BY <1>4 DEF D
<1> QED  BY <1>5, <1>6 DEF SaysOf

(* and is what its recursion says.                                          *)
LEMMA SaidByIs == SaysOf(SaidBy)
<1>1. SaidBy = CHOOSE f : SaysOf(f)
  BY Zenon DEF SaidBy, SaysOf, Says, saysPart
<1> QED  BY <1>1, SomethingSaid

(* Conditions say comparisons.                                              *)
LEMMA SaidType ==
  \A d \in Parts : Said(d) \in SUBSET Comparisons
<1>1. SaysOf(SaidBy)
  BY SaidByIs
<1> DEFINE D == NodeConditions
           T == {c \in D : SaidBy[c] \in SUBSET Comparisons}
           f == SaidBy
<1> HIDE DEF f
<1>2. \A c \in D : f[c] = Says(f, c)
  BY <1>1 DEF SaysOf, f
<1>3. ASSUME NEW c \in D, \A d \in D : heights[d] < heights[c] => d \in T
      PROVE  c \in T
  <2>1. \A d \in NodeConditions : heights[d] < heights[c] => f[d] \in SUBSET Comparisons
    BY <1>3 DEF f
  <2>2. Says(f, c) \in SUBSET Comparisons
    BY <2>1, SaysType
  <2> QED  BY <1>2, <2>2 DEF f
<1>4. heights \in [D -> Nat]
  BY HeightsType
<1> HIDE DEF T, D
<1>5. Progressive(D, heights, T)
  BY <1>3 DEF Progressive
<1>6. D \subseteq T
  BY <1>4, <1>5, RankInduction
<1>7. ASSUME NEW d \in NodeConditions PROVE Said(d) \in SUBSET Comparisons
  BY <1>6, KindsApart DEF Said, T, D
<1>8. ASSUME NEW d \in Leaves PROVE Said(d) \in SUBSET Comparisons
  BY LeavesSay, KindsApart DEF Said
<1> QED  BY <1>7, <1>8 DEF Parts

(* A node says what its conditions say. *)
LEMMA NodeSays ==
  ASSUME NEW c \in NodeConditions
  PROVE  Said(c) = UNION {Said(c.of[i]) : i \in DOMAIN c.of}
<1>1. Said(c) = SaidBy[c] /\ SaidBy[c] = Says(SaidBy, c)
  BY SaidByIs, KindsApart DEF Said, SaysOf
<1>2. \A i \in DOMAIN c.of : saysPart(SaidBy, c.of[i]) = Said(c.of[i])
  BY DEF saysPart, Said
<1> QED  BY <1>1, <1>2 DEF Says

regroupedPart(f, d) == IsNode(d) /\ f[d]

Regroups(f, c) == TwoOthers(c.kind, c.of) \/ \E i \in DOMAIN c.of : regroupedPart(f, c.of[i])

RegroupsOf(f) == f = [c \in NodeConditions |-> Regroups(f, c)]

regroupStep == [c \in NodeConditions |-> [f \in [NodeConditions -> BOOLEAN] |-> Regroups(f, c)]]

(* Whether a node is regrouped depends on the nodes in it only.             *)
LEMMA RegroupsDepends ==
  ASSUME NEW c \in NodeConditions, NEW f, NEW g,
         \A d \in NodeConditions : heights[d] < heights[c] => f[d] = g[d]
  PROVE  Regroups(f, c) = Regroups(g, c)
<1>1. \A i \in DOMAIN c.of : regroupedPart(f, c.of[i]) <=> regroupedPart(g, c.of[i])
  BY PartOf DEF regroupedPart
<1> QED  BY <1>1 DEF Regroups

(* So Regrouped is defined,                                                 *)
LEMMA SomeRegrouped == \E f : RegroupsOf(f)
<1> DEFINE D == NodeConditions
           U == BOOLEAN
<1>1. regroupStep \in [D -> [[D -> U] -> U]]
  <2>1. ASSUME NEW c, NEW f
        PROVE  Regroups(f, c) \in U
    BY DEF Regroups
  <2> HIDE DEF U
  <2> QED  BY <2>1 DEF regroupStep, U
<1>2. LooksBelow(D, U, heights, regroupStep)
  <2>1. ASSUME NEW c \in D, NEW f \in [D -> U], NEW g \in [D -> U],
               \A d \in D : heights[d] < heights[c] => f[d] = g[d]
        PROVE  Regroups(f, c) = Regroups(g, c)
    BY <2>1, RegroupsDepends
  <2> QED  BY <2>1 DEF LooksBelow, regroupStep
<1>3. U # {} /\ Nesting \in Nat /\ heights \in [D -> 0 .. Nesting]
  BY HeightsType
<1> HIDE DEF D, U
<1>4. PICK f \in [D -> U] : IsSolution(D, regroupStep, f)
  BY <1>1, <1>2, <1>3, RecursionHasSolution
<1>5. \A c \in NodeConditions : f[c] = Regroups(f, c)
  BY <1>4 DEF IsSolution, regroupStep, D, U
<1>6. f = [c \in NodeConditions |-> f[c]]
  BY <1>4 DEF D
<1> QED  BY <1>5, <1>6 DEF RegroupsOf

(* and is what its recursion says.                                          *)
LEMMA NodeRegroups ==
  ASSUME NEW c \in NodeConditions
  PROVE  Regrouped[c] <=> (TwoOthers(c.kind, c.of) \/ \E i \in DOMAIN c.of : IsNode(c.of[i]) /\ Regrouped[c.of[i]])
<1>1. Regrouped = CHOOSE f : RegroupsOf(f)
  BY Zenon DEF Regrouped, RegroupsOf, Regroups, regroupedPart
<1>2. RegroupsOf(Regrouped)
  BY <1>1, SomeRegrouped
<1>3. Regrouped[c] = Regroups(Regrouped, c)
  BY <1>2 DEF RegroupsOf
<1> QED  BY <1>3 DEF Regroups, regroupedPart

-----------------------------------------------------------------------------
(* What conditions mean, and when a text is true.                            *)

(* Whether a condition joined by kind is true when S is. *)
PartMeans(kind, d, m, S) ==
    IF IsNode(d) THEN m[d]
    ELSE IF kind = "and" THEN ToSet(d.of) \subseteq S ELSE ToSet(d.of) \cap S # {}

PartsMean(kind, s, m, S) ==
    IF kind = "and"
      THEN \A i \in DOMAIN s : Said(s[i]) # {} => PartMeans(kind, s[i], m, S)
      ELSE \E i \in DOMAIN s : Said(s[i]) # {} /\ PartMeans(kind, s[i], m, S)

(* JoinMeans, condition by condition.                                       *)
LEMMA JoinMeansIs ==
  ASSUME NEW kind, NEW s, NEW m, NEW S
  PROVE  JoinMeans(kind, s, m, S) <=> PartsMean(kind, s, m, S)
  BY DEF JoinMeans, PartsMean, PartMeans

(* It is true or false.                                                     *)
LEMMA JoinMeansType ==
  ASSUME NEW kind, NEW s, NEW m, NEW S
  PROVE  JoinMeans(kind, s, m, S) \in BOOLEAN
  BY DEF JoinMeans

MeansOf(S, m) == m = [c \in NodeConditions |-> JoinMeans(c.kind, c.of, m, S)]

meanStep(S) ==
    [c \in NodeConditions |-> [m \in [NodeConditions -> BOOLEAN] |-> JoinMeans(c.kind, c.of, m, S)]]

(* What a node means depends on the nodes in it only.                       *)
LEMMA MeansDepends ==
  ASSUME NEW S, NEW c \in NodeConditions, NEW f, NEW g,
         \A d \in NodeConditions : heights[d] < heights[c] => f[d] = g[d]
  PROVE  JoinMeans(c.kind, c.of, f, S) = JoinMeans(c.kind, c.of, g, S)
<1>1. \A i \in DOMAIN c.of : PartMeans(c.kind, c.of[i], f, S) = PartMeans(c.kind, c.of[i], g, S)
  BY PartOf DEF PartMeans
<1>2. PartsMean(c.kind, c.of, f, S) <=> PartsMean(c.kind, c.of, g, S)
  BY <1>1 DEF PartsMean
<1> QED  BY <1>2, JoinMeansIs, JoinMeansType

(* So there is what conditions mean,                                        *)
LEMMA SomeMeaning ==
  ASSUME NEW S
  PROVE  \E m : MeansOf(S, m)
<1> DEFINE D == NodeConditions
           U == BOOLEAN
           step == meanStep(S)
<1>1. step \in [D -> [[D -> U] -> U]]
  <2>1. ASSUME NEW c, NEW m
        PROVE  JoinMeans(c.kind, c.of, m, S) \in U
    BY JoinMeansType
  <2> HIDE DEF U
  <2> QED  BY <2>1 DEF meanStep, U
<1>2. LooksBelow(D, U, heights, step)
  <2>1. ASSUME NEW c \in D, NEW f \in [D -> U], NEW g \in [D -> U],
               \A d \in D : heights[d] < heights[c] => f[d] = g[d]
        PROVE  JoinMeans(c.kind, c.of, f, S) = JoinMeans(c.kind, c.of, g, S)
    BY <2>1, MeansDepends
  <2> QED  BY <2>1 DEF LooksBelow, meanStep
<1>3. U # {} /\ Nesting \in Nat /\ heights \in [D -> 0 .. Nesting]
  BY HeightsType
<1> HIDE DEF D, U, step
<1>4. PICK f \in [D -> U] : IsSolution(D, step, f)
  BY <1>1, <1>2, <1>3, RecursionHasSolution
<1>5. \A c \in NodeConditions : f[c] = JoinMeans(c.kind, c.of, f, S)
  BY <1>4 DEF IsSolution, meanStep, step, D, U
<1>6. f = [c \in NodeConditions |-> f[c]]
  BY <1>4 DEF D
<1> QED  BY <1>5, <1>6 DEF MeansOf

(* what Meant uses,                                                         *)
LEMMA MeantIs ==
  ASSUME NEW s, NEW S
  PROVE  \E m : MeansOf(S, m) /\ (Meant(s, S) <=> PartsMean("and", s, m, S))
<1> DEFINE m == CHOOSE m : MeansOf(S, m)
<1>1. MeansOf(S, m)
  BY SomeMeaning
<1>2. Meant(s, S) = JoinMeans("and", s, m, S)
  BY Zenon DEF Meant, MeansOf
<1> HIDE DEF m
<1> QED  BY <1>1, <1>2, JoinMeansIs

(* and a node means its conditions, joined.                                 *)
LEMMA NodeMeans ==
  ASSUME NEW S, NEW m, MeansOf(S, m), NEW c \in NodeConditions
  PROVE  m[c] <=> PartsMean(c.kind, c.of, m, S)
<1>1. m[c] = JoinMeans(c.kind, c.of, m, S)
  BY DEF MeansOf
<1> QED  BY <1>1, JoinMeansIs

(* What is in a text.                                                      *)

Entry(e, s, kind, cs) == \E i \in DOMAIN s : InAppended(e, s[i], kind, cs)

Reads(e, b) == ChildText(e, b).reads # <<>>

IsTrue(e, b, S) == ChildText(e, b).holds[S]

GroupReads(s, kind, cs, b) == \E e : Entry(e, s, kind, cs) /\ Reads(e, b)

GroupHolds(s, kind, cs, b, S) ==
    IF cs = "and" THEN \A e : Entry(e, s, kind, cs) /\ Reads(e, b) => IsTrue(e, b, S)
    ELSE \E e : Entry(e, s, kind, cs) /\ Reads(e, b) /\ IsTrue(e, b, S)

IsLists(L, s, kind, E) ==
    /\ L \in [Constraints -> Seq(E)]
    /\ \A e : \A cs \in Constraints : InSeq(e, L[cs]) <=> Entry(e, s, kind, cs)

(* A group reads and holds what its entries do, joined by its constraint.   *)
LEMMA GroupMeans ==
  ASSUME NEW E \in SUBSET Entries, NEW b, HaveTexts(E, b), NEW s, NEW kind, NEW L,
         IsLists(L, s, kind, E), NEW cs \in Constraints
  PROVE  /\ Group(cs, L, b) \in Matched
         /\ Group(cs, L, b).reads # <<>> <=> GroupReads(s, kind, cs, b)
         /\ \A S \in SUBSET Comparisons :
               Group(cs, L, b).holds[S] <=> GroupHolds(s, kind, cs, b, S)
<1> DEFINE ts == GroupTexts(L[cs], b)
<1>1. L[cs] \in Seq(E)
  BY DEF IsLists
<1>2. ts \in Seq(Matched)
  BY <1>1, GroupTextsMatched
<1>3. \A t : InSeq(t, ts) <=> \E i \in DOMAIN L[cs] : t = ChildText(L[cs][i], b) /\ t.reads # <<>>
  BY <1>1, GroupHas
<1>4. \A t : InSeq(t, ts) <=> \E e : Entry(e, s, kind, cs) /\ Reads(e, b) /\ t = ChildText(e, b)
  <2>1. \A e : (\E i \in DOMAIN L[cs] : L[cs][i] = e) <=> Entry(e, s, kind, cs)
    BY DEF IsLists, InSeq
  <2> QED  BY <1>3, <2>1 DEF Reads
<1> HIDE DEF ts
<1>5. Group(cs, L, b) = Joined(cs, ts)
  BY GroupIs DEF ts
<1>6. Group(cs, L, b) \in Matched
  BY <1>2, <1>5, JoinedMatched
<1>7. Group(cs, L, b).reads # <<>> <=> GroupReads(s, kind, cs, b)
  <2>1. ts \in Seq(Texts)
    BY <1>2 DEF Matched
  <2>2. Joined(cs, ts).reads # <<>> <=> \E t : InSeq(t, ts) /\ t.reads # <<>>
    BY <2>1, JoinedReads DEF InSeq
  <2> QED  BY <1>4, <1>5, <2>2 DEF GroupReads, Reads
<1>8. ASSUME NEW S \in SUBSET Comparisons
      PROVE  Group(cs, L, b).holds[S] <=> GroupHolds(s, kind, cs, b, S)
  <2>1. Group(cs, L, b).holds[S] <=>
           IF cs = "and" THEN \A t : InSeq(t, ts) => t.holds[S]
           ELSE \E t : InSeq(t, ts) /\ t.holds[S]
    BY <1>5 DEF Joined, InSeq
  <2>2. (\A t : InSeq(t, ts) => t.holds[S])
          <=> \A e : Entry(e, s, kind, cs) /\ Reads(e, b) => IsTrue(e, b, S)
    BY <1>4 DEF IsTrue
  <2>3. (\E t : InSeq(t, ts) /\ t.holds[S])
          <=> \E e : Entry(e, s, kind, cs) /\ Reads(e, b) /\ IsTrue(e, b, S)
    BY <1>4 DEF IsTrue
  <2> QED  BY <2>1, <2>2, <2>3 DEF GroupHolds
<1> QED  BY <1>6, <1>7, <1>8

(* The text of a node, by its groups. *)
LEMMA NodeTextMeans ==
  ASSUME NEW E \in SUBSET Entries, NEW b, HaveTexts(E, b), NEW s, NEW kind \in Constraints, NEW L,
         IsLists(L, s, kind, E), NEW order \in Orders
  PROVE  LET t == NodeText(kind, L, order, b)
         IN  /\ t.reads # <<>> <=> \E cs \in Constraints : GroupReads(s, kind, cs, b)
             /\ \A S \in SUBSET Comparisons : t.holds[S] <=>
                  IF kind = "and"
                    THEN \A cs \in Constraints :
                            GroupReads(s, kind, cs, b) => GroupHolds(s, kind, cs, b, S)
                    ELSE \E cs \in Constraints :
                            GroupReads(s, kind, cs, b) /\ GroupHolds(s, kind, cs, b, S)
<1> DEFINE x  == Group(order[1], L, b)
           y  == Group(order[2], L, b)
           ts == Nonempty(x) \o Nonempty(y)
           G(cs) == Group(cs, L, b)
<1>1. order[1] \in Constraints /\ order[2] \in Constraints
  BY OrderIs DEF Constraints
<1>2. x \in Matched /\ y \in Matched
  BY <1>1, GroupMeans
<1>3. \A cs : cs \in Constraints <=> cs = order[1] \/ cs = order[2]
  BY OrderIs DEF Constraints
<1>4. NodeText(kind, L, order, b) = Joined(kind, ts)
  BY DEF NodeText
<1>5. \A t : InSeq(t, ts) <=> t.reads # <<>> /\ \E cs \in Constraints : t = G(cs)
  <2> HIDE DEF x, y
  <2>1. Nonempty(x) \in Seq(Matched) /\ Nonempty(y) \in Seq(Matched)
    BY <1>2 DEF Nonempty
  <2>2. \A t : InSeq(t, ts) <=> InSeq(t, Nonempty(x)) \/ InSeq(t, Nonempty(y))
    BY <2>1, InConcat
  <2>3. \A t, u : InSeq(t, Nonempty(u)) <=> t = u /\ t.reads # <<>>
    BY DEF Nonempty, InSeq
  <2>4. \A t : InSeq(t, ts) <=> t.reads # <<>> /\ (t = x \/ t = y)
    <3> HIDE DEF ts
    <3> QED  BY <2>2, <2>3
  <2> QED  BY <1>3, <2>4 DEF x, y
<1>6. ts \in Seq(Texts)
  <2> HIDE DEF x, y
  <2>1. Nonempty(x) \in Seq(Texts) /\ Nonempty(y) \in Seq(Texts)
    BY <1>2 DEF Nonempty, Matched
  <2> DEFINE p == Nonempty(x)
             q == Nonempty(y)
  <2> HIDE DEF p, q
  <2>2. p \o q \in Seq(Texts)
    BY <2>1 DEF p, q
  <2> QED  BY <2>2 DEF p, q
<1> HIDE DEF ts, x, y
<1>7. Joined(kind, ts).reads # <<>> <=> \E t : InSeq(t, ts) /\ t.reads # <<>>
  BY <1>6, JoinedReads DEF InSeq
<1>8. ASSUME NEW S \in SUBSET Comparisons
      PROVE  Joined(kind, ts).holds[S] <=>
               IF kind = "and" THEN \A t : InSeq(t, ts) => t.holds[S]
               ELSE \E t : InSeq(t, ts) /\ t.holds[S]
  BY DEF Joined, InSeq
<1>9. \A cs \in Constraints :
        /\ G(cs).reads # <<>> <=> GroupReads(s, kind, cs, b)
        /\ \A S \in SUBSET Comparisons : G(cs).holds[S] <=> GroupHolds(s, kind, cs, b, S)
  BY GroupMeans
<1> HIDE DEF G
<1>10. Joined(kind, ts).reads # <<>> <=> \E cs \in Constraints : GroupReads(s, kind, cs, b)
  BY <1>5, <1>7, <1>9
<1>11. ASSUME NEW S \in SUBSET Comparisons
       PROVE  Joined(kind, ts).holds[S] <=>
                IF kind = "and"
                  THEN \A cs \in Constraints :
                          GroupReads(s, kind, cs, b) => GroupHolds(s, kind, cs, b, S)
                  ELSE \E cs \in Constraints :
                          GroupReads(s, kind, cs, b) /\ GroupHolds(s, kind, cs, b, S)
  <2>1. CASE kind = "and"
    <3>1. Joined(kind, ts).holds[S] <=> \A t : InSeq(t, ts) => t.holds[S]
      BY <1>8, <2>1
    <3>2. (\A t : InSeq(t, ts) => t.holds[S]) <=>
             \A cs \in Constraints : G(cs).reads # <<>> => G(cs).holds[S]
      BY <1>5
    <3> QED  BY <1>9, <2>1, <3>1, <3>2
  <2>2. CASE kind # "and"
    <3>1. Joined(kind, ts).holds[S] <=> \E t : InSeq(t, ts) /\ t.holds[S]
      BY <1>8, <2>2
    <3>2. (\E t : InSeq(t, ts) /\ t.holds[S]) <=>
             \E cs \in Constraints : G(cs).reads # <<>> /\ G(cs).holds[S]
      BY <1>5
    <3> QED  BY <1>9, <2>2, <3>1, <3>2
  <2> QED  BY <2>1, <2>2
<1> QED  BY <1>4, <1>10, <1>11

-----------------------------------------------------------------------------
(* A node means what its parts mean.                                        *)

(* The group of the node that part d of a condition goes to. *)
GroupOf(kind, d) == IF IsNode(d) THEN d.kind ELSE kind

(* The text of d is as it should be. *)
TextMeans(d, b, m, S) ==
    IsNode(d) => /\ b[d].reads # <<>> <=> Said(d) # {}
                 /\ Said(d) # {} => (b[d].holds[S] <=> m[d])

(* Nothing said of d is written as something else.                           *)
Straight(d) == \A l \in Said(d) : Written(l) = l

FitParts(s, b, m, S) ==
    /\ s \in Seq(Parts)
    /\ \A i \in DOMAIN s : TextMeans(s[i], b, m, S) /\ Straight(s[i])

PartReads(d, kind, cs, b) == \E e : InAppended(e, d, kind, cs) /\ Reads(e, b)

PartHolds(d, kind, cs, b, S) ==
    IF cs = "and" THEN \A e : InAppended(e, d, kind, cs) /\ Reads(e, b) => IsTrue(e, b, S)
    ELSE \E e : InAppended(e, d, kind, cs) /\ Reads(e, b) /\ IsTrue(e, b, S)

(* A leaf reads, and holds when its comparison does.                        *)
LEMMA LeafEntry ==
  ASSUME NEW l \in Comparisons, Written(l) = l, NEW b, NEW S \in SUBSET Comparisons
  PROVE  Reads(LeafNode(l), b) /\ (IsTrue(LeafNode(l), b, S) <=> l \in S)
<1>1. ChildText(LeafNode(l), b) = LeafText(l)
  BY DEF ChildText, LeafNode
<1>2. LeafText(l).reads # <<>>
  BY LeafTextMatched
<1>3. LeafText(l).holds[S] <=> l \in S
  BY DEF LeafText
<1> QED  BY <1>1, <1>2, <1>3 DEF Reads, IsTrue

(* A node reads and holds as its text does.                                 *)
LEMMA NodeEntry ==
  ASSUME NEW d \in NodeConditions, NEW b, NEW S
  PROVE  (Reads(d, b) <=> b[d].reads # <<>>) /\ (IsTrue(d, b, S) <=> b[d].holds[S])
<1>1. ChildText(d, b) = b[d]
  BY KindsApart DEF ChildText
<1> QED  BY <1>1 DEF Reads, IsTrue

(* Leaves go to the group of the receiver, and mean there what they should: *)
LEMMA LeavesPart ==
  ASSUME NEW d \in Leaves, Straight(d), NEW kind \in Constraints, NEW cs \in Constraints, NEW b, NEW m,
         NEW S \in SUBSET Comparisons
  PROVE  /\ PartReads(d, kind, cs, b) <=> Said(d) # {} /\ GroupOf(kind, d) = cs
         /\ Said(d) # {} /\ GroupOf(kind, d) = cs =>
               (PartHolds(d, kind, cs, b, S) <=> PartMeans(kind, d, m, S))
<1>1. d.kind = "leaves" /\ ~IsNode(d) /\ cs # "leaves"
  BY KindsApart DEF Constraints
<1>2. Said(d) = ToSet(d.of) /\ Said(d) \in SUBSET Comparisons
  BY <1>1, LeavesSay DEF Said
<1>3. \A e : InAppended(e, d, kind, cs) <=> cs = kind /\ \E l \in Said(d) : e = LeafNode(l)
  BY <1>1, <1>2 DEF InAppended
<1>4. \A l \in Said(d) : Reads(LeafNode(l), b) /\ (IsTrue(LeafNode(l), b, S) <=> l \in S)
  BY <1>2, LeafEntry DEF Straight
<1>5. GroupOf(kind, d) = kind
  BY <1>1 DEF GroupOf
<1>6. PartReads(d, kind, cs, b) <=> Said(d) # {} /\ GroupOf(kind, d) = cs
  BY <1>3, <1>4, <1>5 DEF PartReads
<1>7. ASSUME cs = kind
      PROVE  PartHolds(d, kind, cs, b, S) <=> PartMeans(kind, d, m, S)
  <2>1. CASE kind = "and"
    <3>1. PartHolds(d, kind, cs, b, S) <=> \A l \in Said(d) : l \in S
      BY <1>3, <1>4, <1>7, <2>1 DEF PartHolds
    <3> QED  BY <1>1, <1>2, <2>1, <3>1 DEF PartMeans
  <2>2. CASE kind # "and"
    <3>1. PartHolds(d, kind, cs, b, S) <=> \E l \in Said(d) : l \in S
      BY <1>3, <1>4, <1>7, <2>2 DEF PartHolds
    <3> QED  BY <1>1, <1>2, <2>2, <3>1 DEF PartMeans
  <2> QED  BY <2>1, <2>2
<1> QED  BY <1>5, <1>6, <1>7

(* so does a node, in the group of its own constraint.                      *)
LEMMA NodePart ==
  ASSUME NEW d \in NodeConditions, NEW kind \in Constraints, NEW cs \in Constraints, NEW b, NEW m,
         NEW S \in SUBSET Comparisons, TextMeans(d, b, m, S)
  PROVE  /\ PartReads(d, kind, cs, b) <=> Said(d) # {} /\ GroupOf(kind, d) = cs
         /\ Said(d) # {} /\ GroupOf(kind, d) = cs =>
               (PartHolds(d, kind, cs, b, S) <=> PartMeans(kind, d, m, S))
<1>1. d.kind # "leaves" /\ IsNode(d) /\ GroupOf(kind, d) = d.kind
  BY KindsApart DEF GroupOf
<1>2. Said(d) # {} => d.of # <<>>
  <2>1. Said(d) = UNION {Said(d.of[i]) : i \in DOMAIN d.of}
    BY NodeSays
  <2> QED  BY <2>1
<1>3. \A e : InAppended(e, d, kind, cs) <=> d.kind = cs /\ d.of # <<>> /\ e = d
  BY <1>1 DEF InAppended
<1>4. /\ Reads(d, b) <=> Said(d) # {}
      /\ Said(d) # {} => (IsTrue(d, b, S) <=> m[d])
  BY <1>1, NodeEntry DEF TextMeans
<1>5. PartReads(d, kind, cs, b) <=> Said(d) # {} /\ GroupOf(kind, d) = cs
  BY <1>1, <1>2, <1>3, <1>4 DEF PartReads
<1>6. ASSUME Said(d) # {}, d.kind = cs
      PROVE  PartHolds(d, kind, cs, b, S) <=> PartMeans(kind, d, m, S)
  <2>1. PartHolds(d, kind, cs, b, S) <=> IsTrue(d, b, S)
    BY <1>2, <1>3, <1>4, <1>6 DEF PartHolds
  <2> QED  BY <1>1, <1>4, <1>6, <2>1 DEF PartMeans
<1> QED  BY <1>1, <1>5, <1>6

(* Parts that say something, and are true. *)
SaysIn(s, kind, cs, i) == i \in DOMAIN s /\ Said(s[i]) # {} /\ GroupOf(kind, s[i]) = cs

(* A group holds when the parts that go to it are true, joined by its constraint.*)
LEMMA PartsOfGroup ==
  ASSUME NEW s, NEW kind \in Constraints, NEW cs \in Constraints, NEW b, NEW m,
         NEW S \in SUBSET Comparisons, FitParts(s, b, m, S)
  PROVE  /\ GroupReads(s, kind, cs, b) <=> \E i : SaysIn(s, kind, cs, i)
         /\ GroupHolds(s, kind, cs, b, S) <=>
              IF cs = "and" THEN \A i : SaysIn(s, kind, cs, i) => PartMeans(kind, s[i], m, S)
              ELSE \E i : SaysIn(s, kind, cs, i) /\ PartMeans(kind, s[i], m, S)
<1>1. ASSUME NEW i \in DOMAIN s
      PROVE  /\ PartReads(s[i], kind, cs, b) <=> Said(s[i]) # {} /\ GroupOf(kind, s[i]) = cs
             /\ Said(s[i]) # {} /\ GroupOf(kind, s[i]) = cs =>
                  (PartHolds(s[i], kind, cs, b, S) <=> PartMeans(kind, s[i], m, S))
  <2>1. s[i] \in Parts /\ TextMeans(s[i], b, m, S) /\ Straight(s[i])
    BY DEF FitParts
  <2> QED  BY <2>1, LeavesPart, NodePart DEF Parts
<1>2. GroupReads(s, kind, cs, b) <=> \E i \in DOMAIN s : PartReads(s[i], kind, cs, b)
  BY DEF GroupReads, PartReads, Entry
<1>3. GroupReads(s, kind, cs, b) <=> \E i : SaysIn(s, kind, cs, i)
  BY <1>1, <1>2 DEF SaysIn
<1>4. CASE cs = "and"
  <2>1. GroupHolds(s, kind, cs, b, S) <=> \A i \in DOMAIN s : PartHolds(s[i], kind, cs, b, S)
    BY <1>4 DEF GroupHolds, PartHolds, Entry
  <2>2. \A i \in DOMAIN s : ~PartReads(s[i], kind, cs, b) => PartHolds(s[i], kind, cs, b, S)
    BY <1>4 DEF PartReads, PartHolds
  <2>3. GroupHolds(s, kind, cs, b, S) <=>
           \A i : SaysIn(s, kind, cs, i) => PartMeans(kind, s[i], m, S)
    BY <1>1, <2>1, <2>2 DEF SaysIn
  <2> QED  BY <1>3, <1>4, <2>3
<1>5. CASE cs # "and"
  <2>1. GroupHolds(s, kind, cs, b, S) <=> \E i \in DOMAIN s : PartHolds(s[i], kind, cs, b, S)
    BY <1>5 DEF GroupHolds, PartHolds, Entry
  <2>2. \A i \in DOMAIN s : PartHolds(s[i], kind, cs, b, S) => PartReads(s[i], kind, cs, b)
    BY <1>5 DEF PartReads, PartHolds
  <2>3. GroupHolds(s, kind, cs, b, S) <=>
           \E i : SaysIn(s, kind, cs, i) /\ PartMeans(kind, s[i], m, S)
    BY <1>1, <2>1, <2>2 DEF SaysIn
  <2> QED  BY <1>3, <1>5, <2>3
<1> QED  BY <1>4, <1>5

OneOther(s, kind) ==
    \A i, j : (\E cs \in Constraints \ {kind} : SaysIn(s, kind, cs, i) /\ SaysIn(s, kind, cs, j)) => i = j

(* A node that is not regrouped has one part at most in the other group.    *)
LEMMA OnlyOneOther ==
  ASSUME NEW s, NEW kind \in Constraints, ~TwoOthers(kind, s)
  PROVE  OneOther(s, kind)
<1> SUFFICES ASSUME NEW i, NEW j, NEW cs \in Constraints \ {kind},
                    SaysIn(s, kind, cs, i), SaysIn(s, kind, cs, j), i # j
             PROVE  TwoOthers(kind, s)
  BY DEF OneOther
<1>1. \A n \in {i, j} : s[n].kind \in Constraints \ {kind} /\ Said(s[n]) # {}
  BY DEF SaysIn, GroupOf
<1>2. i \in DOMAIN s /\ j \in DOMAIN s
  BY DEF SaysIn
<1> QED  BY <1>1, <1>2 DEF TwoOthers

(* A text made of the parts means what they mean. *)
LEMMA TextOfParts ==
  ASSUME NEW E \in SUBSET Entries, NEW b, HaveTexts(E, b), NEW s, NEW kind \in Constraints, NEW L,
         IsLists(L, s, kind, E), NEW order \in Orders, NEW m, NEW S \in SUBSET Comparisons,
         FitParts(s, b, m, S), ~TwoOthers(kind, s)
  PROVE  LET t == NodeText(kind, L, order, b)
         IN  /\ t.reads # <<>> <=> \E i \in DOMAIN s : Said(s[i]) # {}
             /\ t.reads # <<>> => (t.holds[S] <=> PartsMean(kind, s, m, S))
<1> DEFINE t == NodeText(kind, L, order, b)
           P(i) == PartMeans(kind, s[i], m, S)
<1>1. t.reads # <<>> <=> \E cs \in Constraints : GroupReads(s, kind, cs, b)
  BY NodeTextMeans
<1>2. t.holds[S] <=>
        IF kind = "and"
          THEN \A cs \in Constraints :
                  GroupReads(s, kind, cs, b) => GroupHolds(s, kind, cs, b, S)
          ELSE \E cs \in Constraints :
                  GroupReads(s, kind, cs, b) /\ GroupHolds(s, kind, cs, b, S)
  BY NodeTextMeans
<1>3. \A cs \in Constraints : GroupReads(s, kind, cs, b) <=> \E i : SaysIn(s, kind, cs, i)
  BY PartsOfGroup
<1>4. \A cs \in Constraints : GroupHolds(s, kind, cs, b, S) <=>
         IF cs = "and" THEN \A i : SaysIn(s, kind, cs, i) => P(i)
         ELSE \E i : SaysIn(s, kind, cs, i) /\ P(i)
  BY PartsOfGroup
<1>5. \A i : i \in DOMAIN s /\ Said(s[i]) # {} <=> \E cs \in Constraints : SaysIn(s, kind, cs, i)
  <2>1. \A i \in DOMAIN s : GroupOf(kind, s[i]) \in Constraints
    BY DEF GroupOf, IsNode
  <2> QED  BY <2>1 DEF SaysIn
<1>6. OneOther(s, kind)
  BY OnlyOneOther
<1> HIDE DEF t, P
<1>7. t.reads # <<>> <=> \E i \in DOMAIN s : Said(s[i]) # {}
  BY <1>1, <1>3, <1>5
<1>8. CASE kind = "and"
  <2>1. PartsMean(kind, s, m, S) <=> \A i : (\E cs \in Constraints : SaysIn(s, kind, cs, i)) => P(i)
    BY <1>5, <1>8 DEF PartsMean, P
  <2>2. t.holds[S] <=> \A cs \in Constraints :
           (\E i : SaysIn(s, kind, cs, i)) => GroupHolds(s, kind, cs, b, S)
    BY <1>2, <1>3, <1>8
  <2>3. GroupHolds(s, kind, "and", b, S) <=> \A i : SaysIn(s, kind, "and", i) => P(i)
    BY <1>4 DEF Constraints
  <2>4. (\E i : SaysIn(s, kind, "or", i)) =>
           (GroupHolds(s, kind, "or", b, S) <=> \A i : SaysIn(s, kind, "or", i) => P(i))
    <3>1. GroupHolds(s, kind, "or", b, S) <=> \E i : SaysIn(s, kind, "or", i) /\ P(i)
      BY <1>4 DEF Constraints
    <3>2. \A i, j : SaysIn(s, kind, "or", i) /\ SaysIn(s, kind, "or", j) => i = j
      BY <1>6, <1>8 DEF OneOther, Constraints
    <3> QED  BY <3>1, <3>2
  <2>5. \A cs : cs \in Constraints <=> cs = "and" \/ cs = "or"
    BY DEF Constraints
  <2>6. t.holds[S] <=> PartsMean(kind, s, m, S)
    <3>1. t.holds[S] <=> /\ \A i : SaysIn(s, kind, "and", i) => P(i)
                         /\ \A i : SaysIn(s, kind, "or", i) => P(i)
      BY <2>2, <2>3, <2>4, <2>5
    <3> QED  BY <2>1, <2>5, <3>1
  <2> QED  BY <1>7, <2>6 DEF t
<1>9. CASE kind = "or"
  <2>1. PartsMean(kind, s, m, S) <=> \E i : (\E cs \in Constraints : SaysIn(s, kind, cs, i)) /\ P(i)
    BY <1>5, <1>9 DEF PartsMean, P
  <2>2. t.holds[S] <=> \E cs \in Constraints :
           (\E i : SaysIn(s, kind, cs, i)) /\ GroupHolds(s, kind, cs, b, S)
    BY <1>2, <1>3, <1>9
  <2>3. GroupHolds(s, kind, "or", b, S) <=> \E i : SaysIn(s, kind, "or", i) /\ P(i)
    BY <1>4 DEF Constraints
  <2>4. (\E i : SaysIn(s, kind, "and", i)) =>
           (GroupHolds(s, kind, "and", b, S) <=> \E i : SaysIn(s, kind, "and", i) /\ P(i))
    <3>1. GroupHolds(s, kind, "and", b, S) <=> \A i : SaysIn(s, kind, "and", i) => P(i)
      BY <1>4 DEF Constraints
    <3>2. \A i, j : SaysIn(s, kind, "and", i) /\ SaysIn(s, kind, "and", j) => i = j
      BY <1>6, <1>9 DEF OneOther, Constraints
    <3> QED  BY <3>1, <3>2
  <2>5. \A cs : cs \in Constraints <=> cs = "and" \/ cs = "or"
    BY DEF Constraints
  <2>6. t.holds[S] <=> PartsMean(kind, s, m, S)
    <3>1. t.holds[S] <=> \/ \E i : SaysIn(s, kind, "and", i) /\ P(i)
                         \/ \E i : SaysIn(s, kind, "or", i) /\ P(i)
      BY <2>2, <2>3, <2>4, <2>5
    <3> QED  BY <2>1, <2>5, <3>1
  <2> QED  BY <1>7, <2>6 DEF t
<1> QED  BY <1>8, <1>9 DEF Constraints

-----------------------------------------------------------------------------
(* The clause means what was asked.                                         *)

Means(c, b, m, S) == ~Regrouped[c] /\ Straight(c) => TextMeans(c, b, m, S)

(* A node means what it should if those below do,                           *)
LEMMA NodeMeansStep ==
  ASSUME NEW order \in RangeOrders, NEW b \in [NodeConditions -> Matched], BuiltBy(order, b),
         NEW S \in SUBSET Comparisons, NEW m, MeansOf(S, m), NEW c \in NodeConditions,
         \A d \in NodeConditions : heights[d] < heights[c] => Means(d, b, m, S)
  PROVE  Means(c, b, m, S)
<1> SUFFICES ASSUME ~Regrouped[c], Straight(c) PROVE TextMeans(c, b, m, S)
  BY DEF Means
<1> DEFINE E == EntriesBelow(c)
           L == Children(c)
           s == c.of
           t == NodeText(c.kind, L, order[HeightOf(c)], b)
<1>1. s \in Seq(Parts) /\ c.kind \in Constraints
  BY ChildrenBelow, BelowAreParts, KindsApart
<1>2. L \in [Constraints -> Seq(E)] /\ order[HeightOf(c)] \in Orders
  BY ChildrenType, OrderAt
<1>3. \A e : \A cs \in Constraints : InSeq(e, L[cs]) <=> Entry(e, s, c.kind, cs)
  BY <1>1, ChildrenAre, ListHas DEF Entry
<1>4. E \in SUBSET Entries /\ HaveTexts(E, b)
  BY EntriesAreBelow DEF IsText, HaveTexts
<1>5. ~TwoOthers(c.kind, s) /\ \A i \in DOMAIN s : IsNode(s[i]) => ~Regrouped[s[i]]
  BY NodeRegroups
<1>6. \A i \in DOMAIN s : TextMeans(s[i], b, m, S) /\ Straight(s[i])
  <2>1. \A i \in DOMAIN s : Straight(s[i])
    <3>1. Said(c) = UNION {Said(c.of[i]) : i \in DOMAIN c.of}
      BY NodeSays
    <3> QED  BY <3>1 DEF Straight
  <2> QED  BY <1>5, <2>1, PartOf DEF Means, TextMeans
<1>7. FitParts(s, b, m, S)
  BY <1>1, <1>6 DEF FitParts
<1> HIDE DEF E, L, s
<1>8. IsLists(L, s, c.kind, E)
  BY <1>2, <1>3 DEF IsLists
<1>9. /\ t.reads # <<>> <=> \E i \in DOMAIN s : Said(s[i]) # {}
      /\ t.reads # <<>> => (t.holds[S] <=> PartsMean(c.kind, s, m, S))
  BY <1>1, <1>2, <1>4, <1>5, <1>7, <1>8, TextOfParts
<1> HIDE DEF t
<1>10. b[c] = t
  BY DEF BuiltBy, t, L
<1>11. Said(c) # {} <=> \E i \in DOMAIN s : Said(s[i]) # {}
  <2>1. Said(c) = UNION {Said(c.of[i]) : i \in DOMAIN c.of}
    BY NodeSays
  <2>2. \A x : x \in Said(c) <=> \E i \in DOMAIN s : x \in Said(s[i])
    BY <2>1, Zenon DEF s
  <2> QED  BY ONLY <2>2
<1>12. m[c] <=> PartsMean(c.kind, s, m, S)
  BY NodeMeans DEF s
<1> QED  BY <1>9, <1>10, <1>11, <1>12 DEF TextMeans

(* so all nodes do, by induction along heights.                             *)
LEMMA NodesMean ==
  ASSUME NEW order \in RangeOrders, NEW b \in [NodeConditions -> Matched], BuiltBy(order, b),
         NEW S \in SUBSET Comparisons, NEW m, MeansOf(S, m)
  PROVE  \A c \in NodeConditions : Means(c, b, m, S)
<1> DEFINE D == NodeConditions
           T == {c \in D : Means(c, b, m, S)}
<1>1. ASSUME NEW c \in D, \A d \in D : heights[d] < heights[c] => d \in T
      PROVE  c \in T
  <2>1. \A d \in NodeConditions : heights[d] < heights[c] => Means(d, b, m, S)
    BY <1>1
  <2>2. Means(c, b, m, S)
    BY <2>1, NodeMeansStep
  <2> QED  BY <2>2
<1>2. heights \in [D -> Nat]
  BY HeightsType
<1> HIDE DEF D, T
<1>3. Progressive(D, heights, T)
  BY <1>1 DEF Progressive
<1>4. D \subseteq T
  BY <1>2, <1>3, RankInduction
<1> QED  BY <1>4 DEF T, D

(* The clause means what was asked.                                         *)
LEMMA ClauseMeans ==
  ASSUME WhereIs, where # <<>>, ~RegroupedIn(asked), Misread = {}, NEW order \in RangeOrders,
         NEW S \in SUBSET Comparisons
  PROVE  LET t == Build(order)
         IN  /\ t.reads # <<>> <=> AllAsked # {}
             /\ t.reads # <<>> => (t.holds[S] <=> Meant(asked, S))
<1> DEFINE E == EntriesOf(Parts)
           L == where[1]
           s == asked
<1>1. PICK b \in [NodeConditions -> Matched] :
         BuiltBy(order, b) /\ Build(order) = NodeText("and", L, order[Nesting + 1], b)
  BY BuildBuilds
<1> DEFINE t == NodeText("and", L, order[Nesting + 1], b)
<1>2. PICK m : MeansOf(S, m) /\ (Meant(s, S) <=> PartsMean("and", s, m, S))
  BY MeantIs
<1>3. L \in [Constraints -> Seq(E)] /\ order[Nesting + 1] \in Orders /\ "and" \in Constraints
  BY RootType, OrderAt DEF Constraints
<1>4. s \in Seq(Parts)
  BY DEF WhereIs
<1>5. \A e : \A cs \in Constraints : InSeq(e, L[cs]) <=> Entry(e, s, "and", cs)
  BY <1>3, <1>4, ListHas DEF Entry, WhereIs
<1>6. E \in SUBSET Entries
  BY EntriesOfParts
<1>7. HaveTexts(E, b)
  BY LeafNodeKinds DEF IsText, HaveTexts, EntriesOf
<1>8. ~TwoOthers("and", s) /\ \A i \in DOMAIN s : IsNode(s[i]) => ~Regrouped[s[i]]
  BY DEF RegroupedIn
<1>9. \A i \in DOMAIN s : IsNode(s[i]) => s[i] \in NodeConditions
  BY <1>4, KindsApart DEF Parts
<1>10. \A i \in DOMAIN s : TextMeans(s[i], b, m, S) /\ Straight(s[i])
  <2>1. \A i \in DOMAIN s : Straight(s[i])
    BY DEF Straight, Misread, AllAsked
  <2> QED  BY <1>1, <1>2, <1>8, <1>9, <2>1, NodesMean DEF Means, TextMeans
<1>11. FitParts(s, b, m, S)
  BY <1>4, <1>10 DEF FitParts
<1> HIDE DEF E, L, s
<1>12. IsLists(L, s, "and", E)
  BY <1>3, <1>5 DEF IsLists
<1>13. /\ t.reads # <<>> <=> \E i \in DOMAIN s : Said(s[i]) # {}
       /\ t.reads # <<>> => (t.holds[S] <=> PartsMean("and", s, m, S))
  BY <1>3, <1>6, <1>7, <1>8, <1>11, <1>12, TextOfParts
<1> HIDE DEF t
<1>14. Build(order) = t
  BY <1>1 DEF t
<1>15. AllAsked # {} <=> \E i \in DOMAIN s : Said(s[i]) # {}
  BY DEF AllAsked, s
<1>16. Meant(asked, S) <=> PartsMean("and", s, m, S)
  BY <1>2 DEF s
<1> QED  BY <1>13, <1>14, <1>15, <1>16

(* What is asked are comparisons.                                           *)
LEMMA AskedComparisons ==
  ASSUME WhereIs
  PROVE  AllAsked \in SUBSET Comparisons
<1>1. \A i \in DOMAIN asked : asked[i] \in Parts
  BY DEF WhereIs
<1>2. \A i \in DOMAIN asked : Said(asked[i]) \in SUBSET Comparisons
  BY <1>1, SaidType
<1> QED  BY <1>2 DEF AllAsked

(* ClauseMeansConditions, from what where is.                               *)
LEMMA WhereIsMeans == WhereIs => ClauseMeansConditions
<1> SUFFICES ASSUME WhereIs, where # <<>>, ~RegroupedIn(asked), Misread = {} PROVE Faithful
  BY DEF ClauseMeansConditions
<1> SUFFICES ASSUME NEW order \in RangeOrders
             PROVE  IF AllAsked = {} THEN Build(order).reads = <<>>
                    ELSE /\ Build(order).reads # <<>>
                         /\ {S \in SUBSET AllAsked : Build(order).holds[S]}
                              = {S \in SUBSET AllAsked : Meant(asked, S)}
  BY Zenon DEF Faithful
<1>1. \A S \in SUBSET AllAsked : S \in SUBSET Comparisons
  BY AskedComparisons
<1>2. Build(order).reads # <<>> <=> AllAsked # {}
  <2>1. {} \in SUBSET Comparisons
    OBVIOUS
  <2> QED  BY <2>1, ClauseMeans
<1>3. \A S \in SUBSET AllAsked : Build(order).reads # <<>> => (Build(order).holds[S] <=> Meant(asked, S))
  BY <1>1, ClauseMeans
<1> QED  BY <1>2, <1>3

-----------------------------------------------------------------------------
(* The filters of a query string.                                           *)

(* What loading makes of a query string, whatever its keys.                   *)
Searches ==
    [fields : [Fields -> SUBSET Keys], made : BOOLEAN,
     null : SUBSET [field : Fields, op : NullOps, of : {Nil}],
     compared : SUBSET [field : Fields, op : UrlOps, of : Keys]]

KeysOf(r, f) == {k \in r : k.field = f}

(* The lookups hold keys of the query string.                                *)
LooksUp(s, r) == s \in Searches /\ \A f \in Fields : s.fields[f] \subseteq KeysOf(r, f)

NamedOf(r, ops) == {Compares(k) : k \in {k \in r : k.op \in ops /\ k.spelt = "named"}}

Compared(r) == NamedOf(r, ToSet(Looked)) \cup UNION {Likes(r, f) : f \in Fields}

LEMMA KeyFields ==
  /\ \A f, op, spelt : /\ Key(f, op, spelt).field = f /\ Key(f, op, spelt).op = op
                       /\ Key(f, op, spelt).spelt = spelt
  /\ \A f, op, v : /\ Compare(f, op, v).field = f /\ Compare(f, op, v).op = op
                   /\ Compare(f, op, v).of = v
  BY DEF Key, Compare

LEMMA KeysTyped ==
  ASSUME NEW r \in Requests
  PROVE  /\ r \subseteq Keys
         /\ \A k \in r : /\ k.field \in Fields /\ k.op \in UrlOps /\ k.spelt \in Spellings
                         /\ k = Key(k.field, k.op, k.spelt)
<1>1. r \subseteq Keys
  BY UrlAssumption
<1>2. \A k \in Keys : /\ k.field \in Fields /\ k.op \in UrlOps /\ k.spelt \in Spellings
                      /\ k = Key(k.field, k.op, k.spelt)
  BY DEF Keys, Key
<1> QED  BY <1>1, <1>2

(* The operators looked for.                                                 *)
LEMMA LookedOps == ToSet(Looked) = {"gt", "gte", "lt", "not", "neq"}
<1>1. DOMAIN Looked = 1 .. 6
  BY DEF Looked
<1> QED  BY <1>1 DEF ToSet, Looked

(* The likes tried for a field, one by one.                                  *)
LEMMA TriedIs ==
  ASSUME NEW f
  PROVE  /\ DOMAIN Tried(f) = 1 .. 5
         /\ Tried(f)[1] = Compare(f, "ends", Key(f, "ends", "named"))
         /\ Tried(f)[2] = Compare(f, "ends", Key(f, "eq", IF f \in OneWord THEN "named" ELSE "camel"))
         /\ Tried(f)[3] = Compare(f, "has", Key(f, "has", "named"))
         /\ Tried(f)[4] = Compare(f, "begins", Key(f, "begins", "named"))
         /\ Tried(f)[5] = Compare(f, "begins", Key(f, "eq", "Camel"))
  BY DEF Tried

(* They are likes of the field with a key of the field.                      *)
LEMMA LikesAre ==
  ASSUME NEW r, NEW f, NEW c \in Likes(r, f)
  PROVE  c.field = f /\ c.op \in LikeOps /\ c.of \in r /\ c.of.field = f
<1>1. PICK i \in DOMAIN Tried(f) : c = Tried(f)[i] /\ c.of \in r
  BY DEF Likes
<1>2. i = 1 \/ i = 2 \/ i = 3 \/ i = 4 \/ i = 5
  BY <1>1, TriedIs
<1>3. {"ends", "has", "begins"} = LikeOps
  BY DEF LikeOps
<1>4. \E op \in LikeOps : \E o, spelt : c = Compare(f, op, Key(f, o, spelt))
  BY <1>1, <1>2, <1>3, TriedIs
<1> QED  BY <1>1, <1>4, KeyFields

LEMMA ComparedTyped ==
  ASSUME NEW r \in Requests
  PROVE  /\ NamedOf(r, NullOps) \in SUBSET [field : Fields, op : NullOps, of : {Nil}]
         /\ Compared(r) \in SUBSET [field : Fields, op : UrlOps, of : Keys]
<1>1. ASSUME NEW c \in NamedOf(r, NullOps) PROVE c \in [field : Fields, op : NullOps, of : {Nil}]
  <2>1. PICK k \in r : c = Compares(k) /\ k.op \in NullOps
    BY DEF NamedOf
  <2>2. k.field \in Fields
    BY KeysTyped
  <2> QED  BY <2>1, <2>2 DEF Compares, Compare
<1>2. ASSUME NEW c \in NamedOf(r, ToSet(Looked)) PROVE c \in [field : Fields, op : UrlOps, of : Keys]
  <2>1. PICK k \in r : c = Compares(k) /\ k.op \in ToSet(Looked)
    BY DEF NamedOf
  <2>2. k.field \in Fields /\ k.op \in UrlOps /\ k \in Keys /\ k.op \notin NullOps
    BY <2>1, KeysTyped, LookedOps DEF NullOps
  <2> QED  BY <2>1, <2>2 DEF Compares, Compare
<1>3. ASSUME NEW f \in Fields, NEW c \in Likes(r, f) PROVE c \in [field : Fields, op : UrlOps, of : Keys]
  <2>1. \E i \in DOMAIN Tried(f) : c = Tried(f)[i]
    BY DEF Likes
  <2>2. \E op, v : c = Compare(f, op, v)
    <3>1. \A i \in DOMAIN Tried(f) : i = 1 \/ i = 2 \/ i = 3 \/ i = 4 \/ i = 5
      BY TriedIs
    <3> QED  BY <2>1, <3>1, TriedIs
  <2>3. c.op \in UrlOps /\ c.of \in Keys
    BY LikesAre, KeysTyped DEF UrlOps
  <2> QED  BY <2>2, <2>3 DEF Compare
<1> QED  BY <1>1, <1>2, <1>3 DEF Compared

LEMMA Unloaded == NoSearch \in Searches /\ \A f \in Fields : NoSearch.fields[f] = {}
  BY DEF NoSearch, Searches

(* What the lookups make of a search.                                        *)
LookedUpIn(s, t, r) ==
    /\ t \in Searches /\ t.null = s.null /\ t.compared = s.compared
    /\ \A f \in Fields : t.fields[f] = IF Lookup(r, f) # {} THEN Lookup(r, f) ELSE s.fields[f]

LEMMA LookedUp ==
  ASSUME NEW r \in Requests, NEW s \in Searches
  PROVE  LookedUpIn(s, LoadFieldLookups(s, r), r)
<1> DEFINE fields == [f \in Fields |-> IF Lookup(r, f) # {} THEN Lookup(r, f) ELSE s.fields[f]]
<1>1. \A f \in Fields : Lookup(r, f) \in SUBSET Keys /\ s.fields[f] \in SUBSET Keys
  BY KeysTyped DEF Lookup, Searches
<1>2. fields \in [Fields -> SUBSET Keys]
  BY <1>1
<1>3. LoadFieldLookups(s, r) = [s EXCEPT !.made = TRUE, !.fields = fields]
  BY DEF LoadFieldLookups
<1>4. \A f \in Fields : fields[f] = IF Lookup(r, f) # {} THEN Lookup(r, f) ELSE s.fields[f]
  OBVIOUS
<1> HIDE DEF fields
<1> QED  BY <1>2, <1>3, <1>4 DEF Searches, LookedUpIn

(* The key a field is compared with when it is stray.                        *)
StrayKeys(r, f) ==
    {Key(f, StrayOps[i], "Camel") : i \in {i \in Strays(r, f) : \A j \in Strays(r, f) : j <= i}}

LEMMA LookupKeys ==
  ASSUME NEW r, NEW f
  PROVE  Lookup(r, f) \subseteq KeysOf(r, f) /\ StrayKeys(r, f) \subseteq KeysOf(r, f)
<1>1. ASSUME NEW k \in StrayKeys(r, f)
      PROVE  k \in KeysOf(r, f)
  <2>1. PICK i \in Strays(r, f) : k = Key(f, StrayOps[i], "Camel")
    BY DEF StrayKeys
  <2>2. k \in r
    BY <2>1 DEF Strays
  <2> QED  BY <2>1, <2>2, KeyFields DEF KeysOf
<1>2. Lookup(r, f) \subseteq KeysOf(r, f)
  BY KeyFields DEF Lookup, KeysOf
<1> QED  BY <1>1, <1>2

ComparedIn(s, t, r) ==
    /\ t \in Searches /\ t.null = NamedOf(r, NullOps) /\ t.compared = Compared(r)
    /\ \A f \in Fields : t.fields[f] = IF Strays(r, f) = {} THEN s.fields[f] ELSE StrayKeys(r, f)

LEMMA ComparedTo ==
  ASSUME NEW r \in Requests, NEW s \in Searches
  PROVE  ComparedIn(s, LoadFieldComparisons(s, r), r)
<1> DEFINE fields == [f \in Fields |-> IF Strays(r, f) = {} THEN s.fields[f] ELSE StrayKeys(r, f)]
<1>1. \A f \in Fields : StrayKeys(r, f) \in SUBSET Keys /\ s.fields[f] \in SUBSET Keys
  BY KeysTyped, LookupKeys DEF KeysOf, Searches
<1>2. fields \in [Fields -> SUBSET Keys]
  BY <1>1
<1>3. LoadFieldComparisons(s, r) =
        [s EXCEPT !.null = NamedOf(r, NullOps), !.fields = fields, !.compared = Compared(r)]
  BY DEF LoadFieldComparisons, NamedOf, Compared, StrayKeys
<1>4. \A f \in Fields : fields[f] = IF Strays(r, f) = {} THEN s.fields[f] ELSE StrayKeys(r, f)
  OBVIOUS
<1> HIDE DEF fields
<1> QED  BY <1>2, <1>3, <1>4, ComparedTyped DEF Searches, ComparedIn

(* What either order of loading leaves in the search.                        *)
Loaded(t, r) ==
    /\ t \in Searches /\ t.null = NamedOf(r, NullOps) /\ t.compared = Compared(r)
    /\ \A f \in Fields : /\ t.fields[f] \subseteq KeysOf(r, f)
                         /\ Strays(r, f) = {} => t.fields[f] = Lookup(r, f)

LEMMA LoadedSearch ==
  ASSUME LoadUrl
  PROVE  request' \in Requests /\ Loaded(search', request')
<1>1. PICK r \in Requests, comparisonsFirst \in BOOLEAN :
        LET early == IF comparisonsFirst THEN NoSearch ELSE LoadFieldLookups(NoSearch, r)
            s     == LoadFieldComparisons(early, r)
        IN  request' = r /\ search' = IF comparisonsFirst THEN LoadFieldLookups(s, r) ELSE s
  BY DEF LoadUrl
<1> DEFINE early == IF comparisonsFirst THEN NoSearch ELSE LoadFieldLookups(NoSearch, r)
           s     == LoadFieldComparisons(early, r)
           end   == IF comparisonsFirst THEN LoadFieldLookups(s, r) ELSE s
<1>2. early \in Searches /\ \A f \in Fields :
        early.fields[f] = IF comparisonsFirst THEN {} ELSE Lookup(r, f)
  BY Unloaded, LookedUp DEF LookedUpIn
<1> HIDE DEF early
<1>3. ComparedIn(early, s, r)
  BY <1>2, ComparedTo
<1> HIDE DEF s
<1>4. Loaded(end, r)
  <2>1. CASE comparisonsFirst
    <3>1. LookedUpIn(s, end, r)
      BY <1>3, <2>1, LookedUp DEF ComparedIn
    <3> HIDE DEF end
    <3> QED  BY <1>2, <1>3, <2>1, <3>1, LookupKeys DEF LookedUpIn, ComparedIn, Loaded
  <2>2. CASE ~comparisonsFirst
    BY <1>2, <1>3, <2>2, LookupKeys DEF ComparedIn, Loaded
  <2> QED  BY <2>1, <2>2
<1>5. search' = end
  BY <1>1 DEF early, s
<1> QED  BY <1>1, <1>4, <1>5

(* The filters of a search, by where they come from.                         *)
LEMMA InParams ==
  ASSUME NEW t, NEW c
  PROVE  c \in UrlFieldParams(t) <=>
           \/ \E f \in Fields : \E k \in t.fields[f] : c = Compare(f, "eq", k)
           \/ c \in t.null /\ Given(t) # {}
           \/ c \in t.compared
  BY DEF UrlFieldParams, GetFieldNullables

FiltersOf(r) == {Compares(k) : k \in r}

(* Nothing but what is asked, or a field and a value given for it.            *)
LEMMA NothingInvented ==
  ASSUME NEW r \in Requests, NEW t, Loaded(t, r), NEW c \in UrlFieldParams(t)
  PROVE  c \in FiltersOf(r) \/ \E k \in r : k.field = c.field /\ k = c.of
<1>1. ASSUME NEW f \in Fields, NEW k \in t.fields[f], c = Compare(f, "eq", k)
      PROVE  \E l \in r : l.field = c.field /\ l = c.of
  BY <1>1, KeyFields DEF Loaded, KeysOf
<1>2. NamedOf(r, NullOps) \cup NamedOf(r, ToSet(Looked)) \subseteq FiltersOf(r)
  BY DEF NamedOf, FiltersOf
<1>3. \A f \in Fields : c \in Likes(r, f) => \E l \in r : l.field = c.field /\ l = c.of
  BY LikesAre
<1> QED  BY <1>1, <1>2, <1>3, InParams DEF Loaded, Compared

LEMMA LookedForArrive ==
  ASSUME NEW r \in Requests, NEW t, Loaded(t, r), NEW k \in r, k.spelt = "named",
         k.op \in {"gt", "gte", "lt", "not", "neq"}
  PROVE  Compares(k) \in UrlFieldParams(t)
<1>1. Compares(k) \in NamedOf(r, ToSet(Looked))
  BY LookedOps DEF NamedOf
<1> QED  BY <1>1, InParams DEF Loaded, Compared

(* The filters P are those of the keys of r, and likes an exact match implies.*)
Keeps(r, P) ==
    FiltersOf(r) \subseteq P /\ \A c \in P : c \in FiltersOf(r) \/ Implied(r, c)

(* A plain query string, or none.                                           *)
Telling(r) == r = {} \/ Plain(r)

AllNamed(r) == \A k \in r : k.spelt = "named" /\ k.op # "lte"

(* With all fields spelt as they are named nothing is stray.                 *)
LEMMA NamedKeys ==
  ASSUME NEW r \in Requests, AllNamed(r)
  PROVE  /\ \A f, op, spelt : Key(f, op, spelt) \in r => spelt = "named"
         /\ \A f : Strays(r, f) = {}
         /\ \A f, k : k \in Lookup(r, f) <=> k = Key(f, "eq", "named") /\ k \in r
<1>1. \A f, op, spelt : Key(f, op, spelt) \in r => spelt = "named"
  BY KeyFields DEF AllNamed
<1>2. \A f : Strays(r, f) = {}
  BY <1>1 DEF Strays
<1>3. \A f : Key(f, "eq", "Camel") \notin r
  BY <1>1
<1> QED  BY <1>1, <1>2, <1>3 DEF Lookup

(* The like of a field is the one asked for, or that of an exact match.       *)
LEMMA LikeOfNamed ==
  ASSUME NEW r \in Requests, AllNamed(r), NEW f \in Fields, NEW c \in Likes(r, f)
  PROVE  c \in FiltersOf(r) \/ Implied(r, c)
<1>1. PICK i \in DOMAIN Tried(f) : c = Tried(f)[i] /\ c.of \in r
  BY DEF Likes
<1>2. i = 1 \/ i = 2 \/ i = 3 \/ i = 4 \/ i = 5
  BY <1>1, TriedIs
<1>3. ASSUME NEW op \in LikeOps, c = Compare(f, op, Key(f, op, "named"))
      PROVE  c \in FiltersOf(r)
  <2>1. Key(f, op, "named") \in r /\ op \notin NullOps
    BY <1>1, <1>3, KeyFields DEF LikeOps, NullOps
  <2>2. Compares(Key(f, op, "named")) = c
    BY <1>3, <2>1, KeyFields DEF Compares
  <2> QED  BY <2>1, <2>2 DEF FiltersOf
<1>4. CASE i = 1 \/ i = 3 \/ i = 4
  BY <1>1, <1>3, <1>4, TriedIs DEF LikeOps
<1>5. CASE i = 2
  <2> DEFINE k == Key(f, "eq", IF f \in OneWord THEN "named" ELSE "camel")
  <2>1. c = Compare(f, "ends", k) /\ k.field = f /\ k.op = "eq"
    BY <1>1, <1>5, TriedIs, KeyFields
  <2> HIDE DEF k
  <2>2. k \in r
    BY <1>1, <2>1, KeyFields
  <2> QED  BY <2>1, <2>2 DEF Implied
<1>6. CASE i = 5
  BY <1>1, <1>6, TriedIs, KeyFields, NamedKeys
<1> QED  BY <1>2, <1>4, <1>5, <1>6

(* Without a rival a like asked for is made.                                 *)
LEMMA LikeArrives ==
  ASSUME NEW r \in Requests, Plain(r), NEW k \in r, k.op \in LikeOps
  PROVE  Compares(k) \in Likes(r, k.field)
<1> DEFINE f == k.field
           lower == Key(f, "eq", IF f \in OneWord THEN "named" ELSE "camel")
<1>1. AllNamed(r) /\ k = Key(f, k.op, "named") /\ \A l \in r : ~Rivals(k, l)
  BY KeysTyped DEF Plain, AllNamed
<1>2. Compares(k) = Compare(f, k.op, k)
  BY DEF Compares, LikeOps, NullOps
<1>3. \A op \in LikeOps : op # k.op => Key(f, op, "named") \notin r
  BY <1>1, KeyFields DEF Rivals
<1>4. k.op # "ends" => lower \notin r
  <2>1. CASE f \in OneWord
    BY <1>1, <2>1, KeyFields DEF Rivals
  <2>2. CASE f \notin OneWord
    BY <1>1, <2>2, NamedKeys
  <2> QED  BY <2>1, <2>2
<1>5. /\ DOMAIN Tried(f) = 1 .. 5
      /\ Tried(f)[1] = Compare(f, "ends", Key(f, "ends", "named")) /\ Tried(f)[2] = Compare(f, "ends", lower)
      /\ Tried(f)[3] = Compare(f, "has", Key(f, "has", "named"))
      /\ Tried(f)[4] = Compare(f, "begins", Key(f, "begins", "named"))
  BY TriedIs
<1> HIDE DEF f, lower
<1>6. ASSUME NEW i \in 1 .. 5, Tried(f)[i] = Compare(f, k.op, k),
             \A j \in 1 .. i - 1 : Tried(f)[j].of \notin r
      PROVE  Compares(k) \in Likes(r, f)
  <2>1. i \in DOMAIN Tried(f) /\ Tried(f)[i].of \in r
    BY <1>5, <1>6, KeyFields
  <2> QED  BY <1>2, <1>6, <2>1, Zenon DEF Likes
<1>7. CASE k.op = "ends"
  <2>1. Tried(f)[1] = Compare(f, k.op, k) /\ \A j \in 1 .. 1 - 1 : Tried(f)[j].of \notin r
    BY <1>1, <1>5, <1>7
  <2> QED  BY <1>6, <2>1 DEF f
<1>8. CASE k.op = "has"
  <2>1. Tried(f)[1].of \notin r /\ Tried(f)[2].of \notin r
    BY <1>3, <1>4, <1>5, <1>8, KeyFields DEF LikeOps
  <2>2. \A j \in 1 .. 3 - 1 : j = 1 \/ j = 2
    OBVIOUS
  <2>3. Tried(f)[3] = Compare(f, k.op, k) /\ \A j \in 1 .. 3 - 1 : Tried(f)[j].of \notin r
    BY <1>1, <1>5, <1>8, <2>1, <2>2
  <2> QED  BY <1>6, <2>3 DEF f
<1>9. CASE k.op = "begins"
  <2>1. Tried(f)[1].of \notin r /\ Tried(f)[2].of \notin r /\ Tried(f)[3].of \notin r
    BY <1>3, <1>4, <1>5, <1>9, KeyFields DEF LikeOps
  <2>2. \A j \in 1 .. 4 - 1 : j = 1 \/ j = 2 \/ j = 3
    OBVIOUS
  <2>3. Tried(f)[4] = Compare(f, k.op, k) /\ \A j \in 1 .. 4 - 1 : Tried(f)[j].of \notin r
    BY <1>1, <1>5, <1>9, <2>1, <2>2
  <2> QED  BY <1>6, <2>3 DEF f
<1> QED  BY <1>7, <1>8, <1>9 DEF f, LikeOps

(* Nothing is lost of a plain query string.                                  *)
LEMMA PlainArrive ==
  ASSUME NEW r \in Requests, Plain(r), NEW t, Loaded(t, r), NEW k \in r
  PROVE  Compares(k) \in UrlFieldParams(t)
<1>1. AllNamed(r) /\ k.spelt = "named" /\ k.op \in UrlOps \ {"lte"} /\ k.field \in Fields
  BY KeysTyped DEF Plain, AllNamed
<1>2. \A f \in Fields : t.fields[f] = Lookup(r, f)
  BY <1>1, NamedKeys DEF Loaded
<1>3. CASE k.op = "eq"
  <2>1. k \in Lookup(r, k.field)
    BY <1>1, <1>3, KeysTyped, NamedKeys
  <2>2. Compares(k) = Compare(k.field, "eq", k)
    BY <1>3 DEF Compares, NullOps
  <2> QED  BY <1>1, <1>2, <2>1, <2>2, InParams
<1>4. CASE k.op \in NullOps
  <2>1. PICK l \in r : l.op = "eq"
    BY DEF Plain
  <2>2. l.field \in Fields /\ l \in Lookup(r, l.field)
    BY <1>1, <2>1, KeysTyped, NamedKeys DEF AllNamed
  <2>3. Given(t) # {}
    BY <1>2, <2>2 DEF Given
  <2>4. Compares(k) \in NamedOf(r, NullOps)
    BY <1>1, <1>4 DEF NamedOf
  <2> QED  BY <2>3, <2>4, InParams DEF Loaded
<1>5. CASE k.op \in {"gt", "gte", "lt", "not", "neq"}
  BY <1>1, <1>5, LookedForArrive
<1>6. CASE k.op \in LikeOps
  <2>1. Compares(k) \in Compared(r)
    BY <1>1, <1>6, LikeArrives DEF Compared
  <2> QED  BY <2>1, InParams DEF Loaded
<1> QED  BY <1>1, <1>3, <1>4, <1>5, <1>6 DEF UrlOps

(* So its filters arrive, and no others but the likes that are implied.       *)
LEMMA TellingKept ==
  ASSUME NEW r \in Requests, Telling(r), NEW t, Loaded(t, r)
  PROVE  Keeps(r, UrlFieldParams(t))
<1>1. AllNamed(r)
  BY DEF Telling, Plain, AllNamed
<1>2. FiltersOf(r) \subseteq UrlFieldParams(t)
  BY PlainArrive DEF FiltersOf, Telling
<1>3. ASSUME NEW c \in UrlFieldParams(t)
      PROVE  c \in FiltersOf(r) \/ Implied(r, c)
  <2>1. ASSUME NEW f \in Fields, NEW k \in t.fields[f], c = Compare(f, "eq", k)
        PROVE  c \in FiltersOf(r)
    <3>1. k = Key(f, "eq", "named") /\ k \in r
      BY <1>1, NamedKeys DEF Loaded
    <3>2. Compares(k) = c
      BY <2>1, <3>1, KeyFields DEF Compares, NullOps
    <3> QED  BY <3>1, <3>2 DEF FiltersOf
  <2>2. NamedOf(r, NullOps) \cup NamedOf(r, ToSet(Looked)) \subseteq FiltersOf(r)
    BY DEF NamedOf, FiltersOf
  <2>3. \A f \in Fields : c \in Likes(r, f) => c \in FiltersOf(r) \/ Implied(r, c)
    BY <1>1, LikeOfNamed
  <2> QED  BY <2>1, <2>2, <2>3, InParams DEF Loaded, Compared
<1> QED  BY <1>2, <1>3 DEF Keeps

LEMMA LoadUrlKeeps ==
  ASSUME LoadUrl
  PROVE  UrlFiltersKept'
<1> DEFINE r == request'
           P == UrlFieldParams(search')
<1>1. r \in Requests /\ Loaded(search', r)
  BY LoadedSearch
<1>2. \A k \in r : k.spelt = "named" /\ k.op \in {"gt", "gte", "lt", "not", "neq"} => Compares(k) \in P
  BY <1>1, LookedForArrive
<1>3. \A c \in P : c \in FiltersOf(r) \/ \E k \in r : k.field = c.field /\ k = c.of
  BY <1>1, NothingInvented
<1>4. Plain(r) => Keeps(r, P)
  BY <1>1, TellingKept DEF Telling
<1> QED  BY <1>2, <1>3, <1>4 DEF UrlFiltersKept, Keeps, FiltersOf

(* Whatever the fields and the query string, in either order of loading: the  *)
(* comparisons looked for arrive and no value is compared but with the field  *)
(* it was given for; of a plain one the clause gets all filters, and none     *)
(* beside them but the like that an exact match implies.                     *)
THEOREM UrlFiltersKeptHolds == PagingSpec => []UrlFiltersKept
<1>1. PagingInit => UrlFiltersKept
  BY DEF PagingInit, SearchInit, UrlFiltersKept
<1>2. UrlFiltersKept /\ [PagingNext]_<<searchVars, pagingVars>> => UrlFiltersKept'
  <2> SUFFICES ASSUME UrlFiltersKept, [PagingNext]_<<searchVars, pagingVars>>
               PROVE  UrlFiltersKept'
    OBVIOUS
  <2>1. CASE LoadUrl
    BY <2>1, LoadUrlKeeps
  <2>2. CASE UseParams \/ NewSearch
    BY <2>2 DEF UseParams, NewSearch, UrlFiltersKept
  <2>3. CASE UNCHANGED searchVars
    BY <2>3 DEF searchVars, UrlFiltersKept
  <2>4. LoadUrl \/ UseParams \/ NewSearch \/ UNCHANGED searchVars
    BY DEF PagingNext, OnlySearch, Begin, LoadSearch, UseSearch, SelectRows, SelectFails,
           SelectCount, CountFails, NextPage, AskAgain, Ask, EndOfList, Others, Insert, Delete
  <2> QED  BY <2>1, <2>2, <2>3, <2>4
<1> QED  BY <1>1, <1>2, PTL DEF PagingSpec

-----------------------------------------------------------------------------
(* Sets of rows, one after the other.                                        *)

LEMMA Enumerated ==
  ASSUME NEW S, IsFiniteSet(S), NEW s \in SetToSeqs(S)
  PROVE  /\ Cardinality(S) \in Nat /\ Len(s) = Cardinality(S)
         /\ s \in Seq(S) /\ DOMAIN s = 1 .. Len(s)
         /\ \A i, j \in 1 .. Len(s) : i # j => s[i] # s[j]
         /\ \A x \in S : \E i \in 1 .. Len(s) : s[i] = x
<1> DEFINE D == 1 .. Cardinality(S)
<1>1. Cardinality(S) \in Nat
  BY FS_CardinalityType
<1>2. s \in [D -> S] /\ \A i, j \in D : i # j => s[i] # s[j]
  BY DEF SetToSeqs
<1>3. Len(s) = Cardinality(S) /\ s \in Seq(S) /\ DOMAIN s = D
  BY <1>1, <1>2
<1>4. s \in Surjection(D, S)
  <2>1. s \in Injection(D, S)
    BY <1>2 DEF Injection, IsInjective
  <2>2. Cardinality(D) = Cardinality(S)
    BY <1>1, FS_Interval
  <2> QED  BY <2>1, <2>2, FS_Injection
<1> QED  BY <1>1, <1>2, <1>3, <1>4 DEF Surjection

(* How many rows of S come before a row that is at v[row].                   *)
Before(v, S, row) == {x \in S : v[x] < v[row]}

Rank(v, S, row) == Cardinality(Before(v, S, row))

LEMMA RankGrows ==
  ASSUME NEW v, NEW T, IsFiniteSet(T), NEW S \in SUBSET T, NEW row
  PROVE  Rank(v, S, row) \in Nat /\ Rank(v, T, row) \in Nat /\ Rank(v, S, row) <= Rank(v, T, row)
<1>1. Before(v, T, row) \in SUBSET T /\ Before(v, S, row) \in SUBSET Before(v, T, row)
  BY DEF Before
<1>2. IsFiniteSet(Before(v, T, row))
  BY <1>1, FS_Subset
<1> QED  BY <1>1, <1>2, FS_Subset, FS_CardinalityType DEF Rank

LEMMA Ranked ==
  ASSUME NEW v, NEW S, IsFiniteSet(S), NEW s \in SetToSeqs(S),
         \A x \in S : v[x] \in Int,
         \A i, j \in 1 .. Len(s) : i < j => v[s[i]] < v[s[j]]
  PROVE  \A i \in 1 .. Len(s) : Rank(v, S, s[i]) = i - 1
<1> SUFFICES ASSUME NEW i \in 1 .. Len(s)
             PROVE  Rank(v, S, s[i]) = i - 1
  OBVIOUS
<1> DEFINE n == i - 1
           g == [j \in 1 .. n |-> s[j]]
           B == Before(v, S, s[i])
<1>0. n \in Nat /\ Len(s) \in Nat /\ i <= Len(s) /\ i \in Nat
  BY Enumerated
<1>1. g \in [1 .. n -> B]
  <2>1. ASSUME NEW j \in 1 .. n
        PROVE  s[j] \in B
    <3>1. j \in 1 .. Len(s) /\ j < i
      BY <1>0
    <3> QED  BY <3>1, Enumerated DEF Before
  <2> QED  BY <2>1
<1>2. \A j, k \in 1 .. n : j # k => g[j] # g[k]
  BY <1>0, Enumerated
<1>3. ASSUME NEW x \in B
      PROVE  \E j \in 1 .. n : g[j] = x
  <2>1. PICK j \in 1 .. Len(s) : s[j] = x
    BY Enumerated DEF Before
  <2>2. ~(i <= j)
    <3>1. v[s[j]] < v[s[i]] /\ v[s[i]] \in Int /\ v[s[j]] \in Int
      BY <2>1, Enumerated DEF Before
    <3>2. i < j => v[s[i]] < v[s[j]]
      BY <2>1
    <3> QED  BY <1>0, <2>1, <3>1, <3>2
  <2> QED  BY <1>0, <2>1, <2>2
<1> HIDE DEF g, B
<1>4. g \in Bijection(1 .. n, B)
  BY <1>1, <1>2, <1>3 DEF Bijection, Injection, IsInjective, Surjection
<1>5. Cardinality(B) = n
  BY <1>0, <1>4, FS_CountingElements DEF ExistsBijection
<1> QED  BY <1>5 DEF Rank, B

(* How many rows of n are on the page of l rows that begins after o.         *)
PageLen(n, o, l) == IF n - o < 0 THEN 0 ELSE IF n - o < l THEN n - o ELSE l

LEMMA WindowSeq ==
  ASSUME NEW S, NEW s \in Seq(S), NEW b, b.offset \in Nat, b.limit \in Nat
  PROVE  Window(b, s) \in Seq(S)
<1> DEFINE left == SubSeq(s, b.offset + 1, Len(s))
<1>1. left \in Seq(S)
  OBVIOUS
<1> HIDE DEF left
<1>2. b.limit < Len(left) => SubSeq(left, 1, b.limit) \in Seq(S)
  BY <1>1
<1> QED  BY <1>1, <1>2 DEF Window, left

LEMMA Windowed ==
  ASSUME NEW S, NEW s \in Seq(S), NEW b, b.offset \in Nat, b.limit \in Nat, b.limit > 0
  PROVE  /\ Window(b, s) \in Seq(S)
         /\ Len(Window(b, s)) = PageLen(Len(s), b.offset, b.limit)
         /\ \A i \in 1 .. Len(Window(b, s)) : /\ b.offset + i \in 1 .. Len(s)
                                              /\ Window(b, s)[i] = s[b.offset + i]
<1> DEFINE o == b.offset
           l == b.limit
           left == SubSeq(s, o + 1, Len(s))
<1>1. /\ left \in Seq(S)
      /\ Len(left) = IF Len(s) - o < 0 THEN 0 ELSE Len(s) - o
      /\ \A i \in 1 .. Len(left) : o + i \in 1 .. Len(s) /\ left[i] = s[o + i]
  <2>1. /\ o \in Nat /\ Len(s) \in Nat /\ \A i \in o + 1 .. Len(s) : s[i] \in S
    OBVIOUS
  <2> HIDE DEF o
  <2>2. /\ left \in Seq(S)
        /\ Len(left) = IF o + 1 <= Len(s) THEN Len(s) - (o + 1) + 1 ELSE 0
        /\ \A i \in 1 .. Len(s) - (o + 1) + 1 : left[i] = s[o + 1 + i - 1]
    BY <2>1, SubSeqProperties
  <2> HIDE DEF left
  <2>3. ASSUME NEW i \in 1 .. Len(left)
        PROVE  o + i \in 1 .. Len(s) /\ left[i] = s[o + i]
    <3>1. i \in 1 .. Len(s) - (o + 1) + 1 /\ o + 1 + i - 1 = o + i /\ o + i \in 1 .. Len(s)
      BY <2>1, <2>2
    <3> QED  BY <2>2, <3>1
  <2>4. Len(left) = IF Len(s) - o < 0 THEN 0 ELSE Len(s) - o
    <3> DEFINE n == Len(s)
               m == Len(left)
    <3>1. n \in Nat /\ m = IF o + 1 <= n THEN n - (o + 1) + 1 ELSE 0
      BY <2>1, <2>2
    <3> HIDE DEF n, m
    <3>2. m = IF n - o < 0 THEN 0 ELSE n - o
      BY <2>1, <3>1
    <3> QED  BY <3>2 DEF n, m
  <2> QED  BY <2>2, <2>3, <2>4
<1>2. Window(b, s) = IF l < Len(left) THEN SubSeq(left, 1, l) ELSE left
  BY DEF Window
<1> HIDE DEF left, o, l
<1>3. CASE l < Len(left)
  <2>1. l \in Nat /\ \A i \in 1 .. l : left[i] \in S
    BY <1>1, <1>3 DEF l
  <2>2. /\ SubSeq(left, 1, l) \in Seq(S) /\ Len(SubSeq(left, 1, l)) = l
        /\ \A i \in 1 .. l : SubSeq(left, 1, l)[i] = left[i]
    <3>1. /\ SubSeq(left, 1, l) \in Seq(S)
          /\ Len(SubSeq(left, 1, l)) = IF 1 <= l THEN l - 1 + 1 ELSE 0
          /\ \A i \in 1 .. l - 1 + 1 : SubSeq(left, 1, l)[i] = left[1 + i - 1]
      BY <2>1, SubSeqProperties
    <3> QED  BY <2>1, <3>1
  <2>3. Len(s) \in Nat /\ o \in Nat /\ Len(left) = Len(s) - o
    BY <1>1, <1>3, <2>1 DEF o
  <2>4. PageLen(Len(s), o, l) = l
    BY <1>3, <2>1, <2>3 DEF PageLen
  <2> QED  BY <1>1, <1>2, <1>3, <2>1, <2>2, <2>3, <2>4 DEF o, l
<1>4. CASE ~(l < Len(left))
  BY <1>1, <1>2, <1>4 DEF PageLen, o, l
<1> QED  BY <1>3, <1>4

-----------------------------------------------------------------------------
(* What a request is made of.                                                *)

Limited(p) == IF p.limit = NoKey THEN SelectLimit ELSE p.limit

Begins(p, pg) == (pg - 1) * Limited(p)

Fitting(p, pg) == Limited(p) > 0 /\ Begins(p, pg) <= MaxInt

LEMMA PlanTypes ==
  ASSUME NEW p \in Plans, NEW pg \in Nat \ {0}
  PROVE  /\ Limited(p) \in Int
         /\ Begins(p, pg) \in Int /\ (Limited(p) > 0 => Begins(p, pg) \in Nat)
         /\ Begins(p, pg + 1) = Begins(p, pg) + Limited(p)
         /\ Fitting(p, pg + 1) => Fitting(p, pg)
<1>1. Limited(p) \in Int
  BY PagingAssumption DEF Limited
<1> DEFINE l == Limited(p)
<1>2. /\ (pg - 1) * l \in Int /\ (l > 0 => (pg - 1) * l \in Nat)
      /\ (pg + 1 - 1) * l = (pg - 1) * l + l
  <2> HIDE DEF l
  <2> QED  BY <1>1 DEF l
<1>3. /\ Begins(p, pg) \in Int /\ (Limited(p) > 0 => Begins(p, pg) \in Nat)
      /\ Begins(p, pg + 1) = Begins(p, pg) + Limited(p)
  BY <1>2 DEF Begins
<1> QED  BY <1>1, <1>3, PagingAssumption DEF Fitting

LEMMA Int64Fits ==
  ASSUME NEW n \in Nat, n <= MaxInt
  PROVE  Int64(n) = n
<1>1. MaxInt \in Nat
  BY PagingAssumption
<1>2. n + MaxInt + 1 \in 0 .. 2 * (MaxInt + 1) - 1
  BY <1>1
<1>3. (n + MaxInt + 1) % (2 * (MaxInt + 1)) = n + MaxInt + 1
  BY <1>1, <1>2
<1> QED  BY <1>1, <1>3 DEF Int64

LEMMA BoundsLoaded ==
  ASSUME NEW p \in Plans, NEW pg \in Nat \ {0}
  PROVE  LET b == LoadBoundaries(p, pg)
         IN  /\ b.limit = Limited(p) /\ b.offset \in Int
             /\ Fitting(p, pg) => b.offset = Begins(p, pg)
<1> DEFINE l == Limited(p)
           n == (pg - 1) * l
           b == LoadBoundaries(p, pg)
<1>1. l \in Int /\ n \in Int /\ n = Begins(p, pg) /\ (l > 0 => n \in Nat)
  BY PlanTypes DEF Begins
<1>2. b = IF p.by = "page" THEN Boundaries(l, 0, pg) ELSE Boundaries(l, n, 0)
  BY DEF LoadBoundaries, Limited
<1>3. b.limit = l /\ b.offset = IF p.by = "page" /\ pg > 1 THEN Int64(n)
                                ELSE IF p.by = "page" THEN 0 ELSE n
  BY <1>2 DEF Boundaries
<1>4. pg = 1 => n = 0
  <2> HIDE DEF l
  <2> QED  BY <1>1 DEF l
<1> HIDE DEF l, n, b
<1>5. Int64(n) \in Int
  BY <1>1, PagingAssumption DEF Int64
<1>6. Fitting(p, pg) => Int64(n) = n
  BY <1>1, Int64Fits DEF Fitting, l
<1> QED  BY <1>1, <1>3, <1>4, <1>5, <1>6 DEF l, b

Built(fs) == Count(Offset(Limit(UrlFieldSort(SQLBuilder, fs), bounds.limit), bounds.offset))

LEMMA BuiltFields ==
  ASSUME NEW fs, bounds.limit \in Int, bounds.offset \in Int
  PROVE  /\ Built(fs).limit = IF bounds.limit > 0 THEN bounds.limit ELSE SelectLimit
         /\ Built(fs).offset = IF bounds.offset > 0 THEN bounds.offset ELSE 0
         /\ Built(fs).orderBy = [i \in DOMAIN fs |-> SortKey(fs[i])]
         /\ Built(fs).count = TRUE
         /\ Built(fs).limit \in Nat /\ Built(fs).offset \in Nat
<1> DEFINE keys == [i \in DOMAIN fs |-> SortKey(fs[i])]
           b1 == UrlFieldSort(SQLBuilder, fs)
           b2 == Limit(b1, bounds.limit)
           b3 == Offset(b2, bounds.offset)
<1>1. b1 = [limit |-> SelectLimit, offset |-> 0, orderBy |-> keys, count |-> FALSE]
  <2>1. b1 = [SQLBuilder EXCEPT !.orderBy = keys]
    BY DEF UrlFieldSort
  <2> HIDE DEF keys, b1
  <2> QED  BY <2>1 DEF SQLBuilder
<1> HIDE DEF keys, b1
<1>2. b2 = [limit |-> IF bounds.limit > 0 THEN bounds.limit ELSE SelectLimit, offset |-> 0,
            orderBy |-> keys, count |-> FALSE]
  BY <1>1 DEF Limit
<1> HIDE DEF b2
<1>3. b3 = [limit |-> IF bounds.limit > 0 THEN bounds.limit ELSE SelectLimit,
            offset |-> IF bounds.offset > 0 THEN bounds.offset ELSE 0,
            orderBy |-> keys, count |-> FALSE]
  BY <1>2 DEF Offset
<1> HIDE DEF b3
<1>4. Built(fs) = [limit |-> IF bounds.limit > 0 THEN bounds.limit ELSE SelectLimit,
                   offset |-> IF bounds.offset > 0 THEN bounds.offset ELSE 0,
                   orderBy |-> keys, count |-> TRUE]
  <2>1. Built(fs) = Count(b3)
    BY DEF Built, b3, b2, b1
  <2> QED  BY <1>3, <2>1 DEF Count
<1>5. SelectLimit \in Nat
  BY PagingAssumption
<1> QED  BY <1>4, <1>5 DEF keys

-----------------------------------------------------------------------------
(* The requests of a list.                                                   *)

Requested == {"loaded", "built", "selected", "answered", "failed", "over"}

Typed ==
    /\ stage \in {"idle", "asked"} \cup Requested
    /\ table \subseteq Rows /\ IsFiniteSet(table)
    /\ rows \in Seq(Rows) /\ got \in Seq(Rows)
    /\ writes \in [inserted : SUBSET Rows, deleted : SUBSET Rows, between : Nat]
    /\ stage # "idle" => plan \in Plans /\ page \in Nat \ {0}

HasBounds ==
    stage \in Requested => bounds = LoadBoundaries(plan, page) /\ sort = LoadFieldSort(plan)

HasBuilder ==
    stage \in Requested \ {"loaded"} => \E fs \in SetToSeqs(Sorted) : builder = Built(fs)

(* The rows are a page of what was counted, or would be counted now.          *)
PageOfTotal ==
    stage \in {"selected", "answered"} /\ writes.between = 0 /\ Fitting(plan, page) =>
        Len(rows) = PageLen(IF stage = "selected" THEN Cardinality(Counted) ELSE total,
                            Begins(plan, page), Limited(plan))

Requesting == Typed /\ HasBounds /\ HasBuilder /\ PageOfTotal

LEMMA RequestingInit == PagingInit => Requesting
  BY FS_EmptySet DEF PagingInit, Requesting, Typed, HasBounds, HasBuilder, PageOfTotal,
                     NoWrites, Requested

(* What Select sends with.                                                   *)
LEMMA Sending ==
  ASSUME Typed, HasBounds, HasBuilder, stage \in Requested \ {"loaded"}
  PROVE  /\ builder.limit \in Nat /\ builder.offset \in Nat /\ builder.count
         /\ Fitting(plan, page) => /\ builder.limit = Limited(plan)
                                   /\ builder.offset = Begins(plan, page)
                                   /\ builder.limit > 0
         /\ \E fs \in SetToSeqs(Sorted) : builder.orderBy = [i \in DOMAIN fs |-> SortKey(fs[i])]
<1>1. PICK fs \in SetToSeqs(Sorted) : builder = Built(fs)
  BY DEF HasBuilder
<1>2. plan \in Plans /\ page \in Nat \ {0} /\ bounds = LoadBoundaries(plan, page)
  BY DEF Typed, HasBounds, Requested
<1>3. /\ bounds.limit = Limited(plan) /\ bounds.limit \in Int /\ bounds.offset \in Int
      /\ Fitting(plan, page) => bounds.offset = Begins(plan, page)
  BY <1>2, BoundsLoaded, PlanTypes
<1>4. Fitting(plan, page) => Limited(plan) > 0 /\ Begins(plan, page) \in Nat
  BY <1>2, PlanTypes DEF Fitting
<1>5. /\ builder.limit = IF bounds.limit > 0 THEN bounds.limit ELSE SelectLimit
      /\ builder.offset = IF bounds.offset > 0 THEN bounds.offset ELSE 0
      /\ builder.orderBy = [i \in DOMAIN fs |-> SortKey(fs[i])]
      /\ builder.count = TRUE
      /\ builder.limit \in Nat /\ builder.offset \in Nat
  BY <1>1, <1>3, BuiltFields
<1>6. Fitting(plan, page) => /\ builder.limit = Limited(plan)
                             /\ builder.offset = Begins(plan, page)
                             /\ builder.limit > 0
  BY <1>3, <1>4, <1>5
<1> QED  BY <1>5, <1>6

(* A set of rows, as the database orders it.                                 *)
LEMMA Ordered ==
  ASSUME NEW keys, NEW S \in SUBSET Rows, IsFiniteSet(S), NEW s \in InOrder(keys, S)
  PROVE  s \in SetToSeqs(S) /\ s \in Seq(S) /\ s \in Seq(Rows)
<1>1. s \in SetToSeqs(S)
  BY DEF InOrder
<1>2. s \in Seq(S)
  BY <1>1, Enumerated
<1> QED  BY <1>1, <1>2

LEMMA SelectRowsKeeps ==
  ASSUME NEW C \in SUBSET Rows, Requesting, SelectRows(C)
  PROVE  Requesting'
<1>1. PICK s \in InOrder(builder.orderBy, table \cap C) : rows' = Window(builder, s)
  BY DEF SelectRows
<1> DEFINE S == table \cap C
<1>2. S \in SUBSET Rows /\ IsFiniteSet(S) /\ Counted' = S
  BY FS_Intersection DEF Requesting, Typed, SelectRows, Counted
<1> HIDE DEF S
<1>3. s \in SetToSeqs(S) /\ s \in Seq(Rows) /\ Len(s) = Cardinality(S)
  BY <1>1, <1>2, Ordered, Enumerated DEF S
<1>4. /\ builder.limit \in Nat /\ builder.offset \in Nat
      /\ Fitting(plan, page) => /\ builder.limit = Limited(plan)
                                /\ builder.offset = Begins(plan, page)
                                /\ builder.limit > 0
  BY Sending DEF Requesting, SelectRows, Requested
<1>5. rows' \in Seq(Rows)
  BY <1>1, <1>3, <1>4, WindowSeq
<1>6. Fitting(plan, page) =>
        Len(rows') = PageLen(Cardinality(S), Begins(plan, page), Limited(plan))
  BY <1>1, <1>3, <1>4, Windowed
<1>7. Typed'
  BY <1>5 DEF Requesting, Typed, SelectRows, Requested
<1>8. HasBounds' /\ HasBuilder'
  BY DEF Requesting, HasBounds, HasBuilder, SelectRows, Requested, Sorted, Built, SortKey,
         UrlFieldSort
<1>9. PageOfTotal'
  BY <1>2, <1>6 DEF PageOfTotal, SelectRows, Fitting, Begins, Limited
<1> QED  BY <1>7, <1>8, <1>9 DEF Requesting

LEMMA SelectFailsKeeps ==
  ASSUME NEW C \in SUBSET Rows, Requesting, SelectFails(C)
  PROVE  Requesting'
<1>1. PICK s \in InOrder(builder.orderBy, table \cap C) :
         \E n \in 0 .. Len(Window(builder, s)) : rows' = SubSeq(Window(builder, s), 1, n)
  BY DEF SelectFails
<1>2. table \cap C \in SUBSET Rows /\ IsFiniteSet(table \cap C)
  BY FS_Intersection DEF Requesting, Typed
<1>3. s \in Seq(Rows)
  BY <1>1, <1>2, Ordered
<1>4. builder.limit \in Nat /\ builder.offset \in Nat
  BY Sending DEF Requesting, SelectFails, Requested
<1>5. Window(builder, s) \in Seq(Rows)
  BY <1>3, <1>4, WindowSeq
<1>6. rows' \in Seq(Rows)
  <2>1. PICK n \in 0 .. Len(Window(builder, s)) : rows' = SubSeq(Window(builder, s), 1, n)
    BY <1>1
  <2> HIDE DEF Window
  <2> QED  BY <1>5, <2>1
<1>7. Typed'
  BY <1>6 DEF Requesting, Typed, SelectFails, Requested
<1>8. HasBounds' /\ HasBuilder' /\ PageOfTotal'
  BY DEF Requesting, HasBounds, HasBuilder, PageOfTotal, SelectFails, Requested, Sorted, Built,
         SortKey, UrlFieldSort
<1> QED  BY <1>7, <1>8 DEF Requesting

(* A write to the table, between the queries of Select or not.                *)
LEMMA Wrote ==
  ASSUME NEW row \in Rows, Typed, Insert(row) \/ Delete(row)
  PROVE  /\ writes' \in [inserted : SUBSET Rows, deleted : SUBSET Rows, between : Nat]
         /\ writes'.between = IF stage = "selected" THEN writes.between + 1 ELSE writes.between
         /\ Insert(row) => /\ writes'.inserted = writes.inserted \cup {row}
                           /\ writes'.deleted = writes.deleted
         /\ Delete(row) => /\ writes'.inserted = writes.inserted
                           /\ writes'.deleted = writes.deleted \cup {row}
<1> DEFINE b == IF stage = "selected" THEN writes.between + 1 ELSE writes.between
<1>1. b \in Nat /\ writes \in [inserted : SUBSET Rows, deleted : SUBSET Rows, between : Nat]
  BY DEF Typed
<1>2. Insert(row) => writes' = [writes EXCEPT !.inserted = @ \cup {row}, !.between = b]
  BY DEF Insert, Between
<1>3. Delete(row) => writes' = [writes EXCEPT !.deleted = @ \cup {row}, !.between = b]
  BY DEF Delete, Between
<1>4. ASSUME NEW A, NEW B, NEW w \in [inserted : SUBSET Rows, deleted : SUBSET Rows, between : Nat]
      PROVE  /\ [w EXCEPT !.inserted = A, !.between = B]
                  = [inserted |-> A, deleted |-> w.deleted, between |-> B]
             /\ [w EXCEPT !.deleted = A, !.between = B]
                  = [inserted |-> w.inserted, deleted |-> A, between |-> B]
  <2>1. w = [inserted |-> w.inserted, deleted |-> w.deleted, between |-> w.between]
    OBVIOUS
  <2> DEFINE i == w.inserted
             d == w.deleted
             n == w.between
  <2>2. w = [inserted |-> i, deleted |-> d, between |-> n]
    BY <2>1
  <2> HIDE DEF i, d, n
  <2>3. /\ [w EXCEPT !.inserted = A] = [inserted |-> A, deleted |-> d, between |-> n]
        /\ [w EXCEPT !.deleted = A] = [inserted |-> i, deleted |-> A, between |-> n]
    BY <2>2
  <2>4. /\ [[w EXCEPT !.inserted = A] EXCEPT !.between = B]
             = [inserted |-> A, deleted |-> d, between |-> B]
        /\ [[w EXCEPT !.deleted = A] EXCEPT !.between = B]
             = [inserted |-> i, deleted |-> A, between |-> B]
    <3> DEFINE wi == [w EXCEPT !.inserted = A]
               wd == [w EXCEPT !.deleted = A]
    <3>1. /\ wi = [inserted |-> A, deleted |-> d, between |-> n]
          /\ wd = [inserted |-> i, deleted |-> A, between |-> n]
      BY <2>3
    <3> HIDE DEF wi, wd
    <3>2. /\ [wi EXCEPT !.between = B] = [inserted |-> A, deleted |-> d, between |-> B]
          /\ [wd EXCEPT !.between = B] = [inserted |-> i, deleted |-> A, between |-> B]
      BY <3>1
    <3> QED  BY <3>2 DEF wi, wd
  <2> QED  BY <2>4 DEF i, d
<1>5. ASSUME Insert(row), Delete(row) PROVE FALSE
  BY <1>5 DEF Insert, Delete
<1> HIDE DEF b
<1>6. CASE Insert(row)
  <2>1. writes' = [inserted |-> writes.inserted \cup {row}, deleted |-> writes.deleted,
                   between |-> b]
    BY <1>1, <1>2, <1>4, <1>6
  <2> QED  BY <1>1, <1>5, <1>6, <2>1 DEF b
<1>7. CASE Delete(row)
  <2>1. writes' = [inserted |-> writes.inserted, deleted |-> writes.deleted \cup {row},
                   between |-> b]
    BY <1>1, <1>3, <1>4, <1>7
  <2> QED  BY <1>1, <1>5, <1>7, <2>1 DEF b
<1> QED  BY <1>6, <1>7

LEMMA OthersKeep ==
  ASSUME Requesting, Others
  PROVE  Requesting'
<1>1. PICK row \in Rows : Insert(row) \/ Delete(row)
  BY DEF Others
<1>2. table' \subseteq Rows /\ IsFiniteSet(table')
  BY <1>1, FS_AddElement, FS_RemoveElement DEF Insert, Delete, Requesting, Typed
<1>3. /\ writes' \in [inserted : SUBSET Rows, deleted : SUBSET Rows, between : Nat]
      /\ writes'.between = IF stage = "selected" THEN writes.between + 1 ELSE writes.between
  BY <1>1, Wrote DEF Requesting
<1>4. UNCHANGED <<searchVars, plan, page, bounds, sort, builder, stage, chosen, rows, total, got>>
  BY <1>1 DEF Insert, Delete
<1>5. Typed' /\ HasBounds' /\ HasBuilder'
  BY <1>2, <1>3, <1>4 DEF Requesting, Typed, HasBounds, HasBuilder, Sorted, Built, SortKey,
                          UrlFieldSort
<1>6. PageOfTotal'
  BY <1>3, <1>4 DEF Requesting, Typed, PageOfTotal, Fitting, Begins, Limited
<1> QED  BY <1>5, <1>6 DEF Requesting

LEMMA AskKeeps ==
  ASSUME Requesting, stage # "idle", NEW pg \in Nat \ {0}, Ask(pg)
  PROVE  Requesting'
<1>1. Typed'
  BY DEF Requesting, Typed, Ask, NewSearch
<1> QED  BY <1>1 DEF Requesting, HasBounds, HasBuilder, PageOfTotal, Ask, Requested

LEMMA RequestingNext ==
  ASSUME Requesting, [PagingNext]_<<searchVars, pagingVars>>
  PROVE  Requesting'
<1> USE DEF Requesting
<1>1. CASE OnlySearch \/ UNCHANGED <<searchVars, pagingVars>>
  <2>1. UNCHANGED pagingVars
    BY <1>1 DEF OnlySearch
  <2> QED  BY <2>1 DEF pagingVars, Typed, HasBounds, HasBuilder, PageOfTotal, Sorted, Built,
                       SortKey, UrlFieldSort, Counted
<1>2. ASSUME NEW p \in Plans, Begin(p)
      PROVE  Requesting'
  <2>1. p.first \in Nat \ {0} /\ table' \subseteq Rows /\ IsFiniteSet(table')
    BY <1>2, PagingAssumption DEF Begin
  <2> QED  BY <1>2, <2>1 DEF Begin, Typed, HasBounds, HasBuilder, PageOfTotal, Requested
<1>3. CASE LoadSearch
  BY <1>3 DEF LoadSearch, Typed, HasBounds, HasBuilder, PageOfTotal, Requested
<1>4. CASE UseSearch
  <2>1. PICK fs \in SetToSeqs(Sorted) : builder' = Built(fs)
    BY <1>4 DEF UseSearch, Built
  <2>2. SetToSeqs(Sorted)' = SetToSeqs(Sorted) /\ Built(fs)' = Built(fs)
    BY <1>4 DEF UseSearch, Sorted, Built, SortKey, UrlFieldSort
  <2> QED  BY <1>4, <2>1, <2>2 DEF UseSearch, Typed, HasBounds, HasBuilder, PageOfTotal, Requested
<1>5. ASSUME NEW C \in SUBSET Rows, SelectRows(C) \/ SelectFails(C)
      PROVE  Requesting'
  BY <1>5, SelectRowsKeeps, SelectFailsKeeps
<1>6. CASE SelectCount
  <2>1. builder.count = TRUE
    BY <1>6, Sending DEF SelectCount, Requested
  <2>2. total' = Cardinality(Counted)
    BY <1>6, <2>1 DEF SelectCount
  <2>3. Typed'
    BY <1>6 DEF SelectCount, Typed, Requested
  <2>4. HasBounds' /\ HasBuilder'
    BY <1>6 DEF SelectCount, HasBounds, HasBuilder, Requested, Sorted, Built, SortKey, UrlFieldSort
  <2>5. PageOfTotal'
    BY <1>6, <2>2 DEF SelectCount, PageOfTotal, Fitting, Begins, Limited
  <2> QED  BY <2>3, <2>4, <2>5
<1>7. CASE CountFails \/ EndOfList
  <2>1. Typed'
    BY <1>7 DEF CountFails, EndOfList, Typed, Requested
  <2> QED  BY <1>7, <2>1 DEF CountFails, EndOfList, HasBounds, HasBuilder, PageOfTotal, Requested,
                             Sorted, Built, SortKey, UrlFieldSort
<1>8. CASE NextPage
  BY <1>8, AskKeeps DEF NextPage, Typed
<1>9. CASE AskAgain
  BY <1>9, AskKeeps DEF AskAgain, Typed
<1>10. CASE Others
  BY <1>10, OthersKeep
<1> QED  BY <1>1, <1>2, <1>3, <1>4, <1>5, <1>6, <1>7, <1>8, <1>9, <1>10 DEF PagingNext

LEMMA RequestingHolds == PagingSpec => []Requesting
<1>1. Requesting /\ [PagingNext]_<<searchVars, pagingVars>> => Requesting'
  BY RequestingNext
<1> QED  BY RequestingInit, <1>1, PTL DEF PagingSpec

(* For any table, plan and number of pages: the rows of a page are as many as  *)
(* its total, page and limit say, if no row was written between the two       *)
(* queries of Select.                                                        *)
THEOREM TotalMatchesPageHolds == PagingSpec => []TotalMatchesPage
<1>1. Requesting => TotalMatchesPage
  <2> SUFFICES ASSUME Requesting, stage = "answered", Fits(page), writes.between = 0
               PROVE  Len(rows) = LET rest == total - (page - 1) * bounds.limit
                                  IN  IF rest < 0 THEN 0
                                      ELSE IF rest < bounds.limit THEN rest ELSE bounds.limit
    BY DEF TotalMatchesPage
  <2>1. bounds.limit = Limited(plan)
    BY BoundsLoaded DEF Requesting, Typed, HasBounds, Requested
  <2>2. Fitting(plan, page)
    BY <2>1 DEF Fits, Fitting, Begins
  <2> QED  BY <2>1, <2>2 DEF Requesting, PageOfTotal, PageLen, Begins
<1> QED  BY <1>1, RequestingHolds, PTL

-----------------------------------------------------------------------------
(* The rows of a page: of a set in the order of v, those with a rank between   *)
(* the page's first and the next page's.                                     *)

Holding(s, x) == \E i \in 1 .. Len(s) : s[i] = x

Distinct(s) == \A i, j \in 1 .. Len(s) : i # j => s[i] # s[j]

LEMMA PageOf ==
  ASSUME NEW v, NEW S, IsFiniteSet(S), NEW s \in SetToSeqs(S),
         \A x \in S : v[x] \in Int,
         \A i, j \in 1 .. Len(s) : i < j => v[s[i]] < v[s[j]],
         NEW b, b.offset \in Nat, b.limit \in Nat, b.limit > 0
  PROVE  LET w == Window(b, s)
         IN  /\ w \in Seq(S) /\ Distinct(w)
             /\ \A i \in 1 .. Len(w) : /\ Rank(v, S, w[i]) >= b.offset
                                       /\ Rank(v, S, w[i]) < b.offset + b.limit
             /\ \A x \in S : Rank(v, S, x) >= b.offset =>
                   Holding(w, x) \/ (Rank(v, S, x) >= b.offset + b.limit /\ Len(w) >= b.limit)
<1> DEFINE w == Window(b, s)
           o == b.offset
           l == b.limit
<1>1. /\ Len(s) \in Nat /\ s \in Seq(S)
      /\ \A i, j \in 1 .. Len(s) : i # j => s[i] # s[j]
      /\ \A x \in S : \E i \in 1 .. Len(s) : s[i] = x
  BY Enumerated
<1>2. \A i \in 1 .. Len(s) : Rank(v, S, s[i]) = i - 1
  BY Ranked
<1>3. /\ w \in Seq(S) /\ Len(w) = PageLen(Len(s), o, l)
      /\ \A i \in 1 .. Len(w) : o + i \in 1 .. Len(s) /\ w[i] = s[o + i]
  BY <1>1, Windowed
<1>4. o \in Nat /\ l \in Nat /\ l > 0
  OBVIOUS
<1> HIDE DEF w, o, l
<1>5. Len(w) \in Nat /\ Len(w) <= l
  BY <1>1, <1>3, <1>4 DEF PageLen
<1>6. Distinct(w)
  <2> SUFFICES ASSUME NEW i \in 1 .. Len(w), NEW j \in 1 .. Len(w), i # j
               PROVE  w[i] # w[j]
    BY DEF Distinct
  <2>1. o + i # o + j
    BY <1>4, <1>5
  <2>2. /\ o + i \in 1 .. Len(s) /\ w[i] = s[o + i]
        /\ o + j \in 1 .. Len(s) /\ w[j] = s[o + j]
    BY <1>3
  <2> QED  BY <1>1, <2>1, <2>2
<1>7. \A i \in 1 .. Len(w) : Rank(v, S, w[i]) >= o /\ Rank(v, S, w[i]) < o + l
  <2> SUFFICES ASSUME NEW i \in 1 .. Len(w)
               PROVE  Rank(v, S, w[i]) >= o /\ Rank(v, S, w[i]) < o + l
    OBVIOUS
  <2>1. Rank(v, S, w[i]) = (o + i) - 1
    <3>1. o + i \in 1 .. Len(s) /\ w[i] = s[o + i]
      BY <1>3
    <3>2. \A k : k \in 1 .. Len(s) => Rank(v, S, s[k]) = k - 1
      BY <1>2
    <3>3. Rank(v, S, s[o + i]) = (o + i) - 1
      BY <3>1, <3>2
    <3> QED  BY <3>1, <3>3
  <2>2. i \in Nat /\ i >= 1 /\ i <= l
    BY <1>4, <1>5
  <2> HIDE DEF Rank
  <2> QED  BY <1>4, <2>1, <2>2
<1>8. ASSUME NEW x \in S, Rank(v, S, x) >= o
      PROVE  Holding(w, x) \/ (Rank(v, S, x) >= o + l /\ Len(w) >= l)
  <2>1. PICK i \in 1 .. Len(s) : s[i] = x
    BY <1>1
  <2>2. Rank(v, S, x) = i - 1 /\ i \in Nat /\ o <= i - 1 /\ i <= Len(s)
    <3>1. Rank(v, S, x) = i - 1
      BY <1>2, <2>1
    <3>2. i \in Nat /\ i <= Len(s)
      BY <1>1
    <3> QED  BY <1>4, <1>8, <3>1, <3>2
  <2>3. CASE i - 1 < o + l
    <3>1. i - o \in 1 .. Len(w)
      BY <1>1, <1>3, <1>4, <2>2, <2>3 DEF PageLen
    <3>2. w[i - o] = s[o + (i - o)] /\ o + (i - o) = i
      BY <1>3, <1>4, <2>2, <3>1
    <3> QED  BY <2>1, <3>1, <3>2 DEF Holding
  <2>4. CASE ~(i - 1 < o + l)
    <3> DEFINE n == Len(s)
    <3>1. n \in Nat /\ Len(w) = PageLen(n, o, l) /\ i \in Nat /\ i <= n
      BY <1>1, <1>3, <2>2
    <3> HIDE DEF n
    <3>2. PageLen(n, o, l) = l /\ i - 1 >= o + l
      BY <1>4, <2>4, <3>1 DEF PageLen
    <3> QED  BY <1>4, <2>2, <3>1, <3>2
  <2> QED  BY <2>3, <2>4
<1> QED  BY <1>3, <1>6, <1>7, <1>8 DEF w, o, l

(* Field f alone is sorted by, and tells the rows apart.                     *)
OneKey(p, f) ==
    /\ \A x \in Fields : LoadFieldSort(p)[x] # NoKey <=> x = f
    /\ \A a, b \in Rows : Value[f][a] = Value[f][b] => a = b

Place(p, f) == [row \in Rows |-> IF p.sort[f] = "asc" THEN Value[f][row] ELSE 0 - Value[f][row]]

LEMMA InPlace ==
  ASSUME NEW f \in Fields, OneKey(plan, f), sort = LoadFieldSort(plan),
         NEW fs \in SetToSeqs(Sorted), NEW S \in SUBSET Rows, IsFiniteSet(S),
         NEW s \in InOrder([i \in DOMAIN fs |-> SortKey(fs[i])], S)
  PROVE  /\ \A x \in S : Place(plan, f)[x] \in Int
         /\ \A i, j \in 1 .. Len(s) : i < j => Place(plan, f)[s[i]] < Place(plan, f)[s[j]]
<1> DEFINE keys == [i \in DOMAIN fs |-> SortKey(fs[i])]
           v == Place(plan, f)
<1>1. Sorted = {f}
  BY DEF OneKey, Sorted
<1>2. DOMAIN fs = 1 .. 1 /\ fs[1] = f
  <2>1. IsFiniteSet(Sorted) /\ Cardinality(Sorted) = 1
    BY <1>1, FS_Singleton
  <2>2. fs \in [1 .. 1 -> {f}]
    BY <1>1, <2>1 DEF SetToSeqs
  <2> QED  BY <2>2
<1>3. plan.sort[f] \in {"asc", "desc"} /\ sort[f] = plan.sort[f]
  BY DEF OneKey, LoadFieldSort, SortTypes
<1>4. DOMAIN keys = 1 .. 1 /\ keys[1].field = f /\ keys[1].type = plan.sort[f]
  BY <1>2, <1>3 DEF SortKey
<1>5. \A a \in Rows : /\ v[a] = IF plan.sort[f] = "asc" THEN Value[f][a] ELSE 0 - Value[f][a]
                      /\ Value[f][a] \in Int /\ v[a] \in Int
  <2> SUFFICES ASSUME NEW a \in Rows
               PROVE  /\ v[a] = IF plan.sort[f] = "asc" THEN Value[f][a] ELSE 0 - Value[f][a]
                      /\ Value[f][a] \in Int /\ v[a] \in Int
    OBVIOUS
  <2>1. v[a] = IF plan.sort[f] = "asc" THEN Value[f][a] ELSE 0 - Value[f][a]
    BY Zenon DEF Place
  <2>2. Value[f][a] \in Int
    BY PagingAssumption
  <2> HIDE DEF v
  <2> QED  BY <2>1, <2>2
<1> HIDE DEF v
<1>6. \A a, b \in Rows : v[a] < v[b] => Precedes(keys, a, b)
  <2> SUFFICES ASSUME NEW a \in Rows, NEW b \in Rows, v[a] < v[b]
               PROVE  Precedes(keys, a, b)
    OBVIOUS
  <2>2. IF plan.sort[f] = "asc" THEN Value[f][a] < Value[f][b] ELSE Value[f][a] > Value[f][b]
    BY <1>5
  <2>3. 1 \in 1 .. 1 /\ 1 .. 1 - 1 = {}
    OBVIOUS
  <2> HIDE DEF keys
  <2>4. DOMAIN keys = 1 .. 1 /\ 1 \in DOMAIN keys /\ \A j \in 1 .. 1 - 1 : FALSE
    BY <1>4, <2>3
  <2> QED  BY <1>4, <2>2, <2>4 DEF Precedes
<1>7. \A a, b \in Rows : v[a] = v[b] => a = b
  <2> SUFFICES ASSUME NEW a \in Rows, NEW b \in Rows, v[a] = v[b]
               PROVE  a = b
    OBVIOUS
  <2>2. Value[f][a] = Value[f][b]
    BY <1>5
  <2> QED  BY <2>2 DEF OneKey
<1> HIDE DEF keys
<1>8. /\ s \in SetToSeqs(S)
      /\ \A i, j \in DOMAIN s : i < j => ~Precedes(keys, s[j], s[i])
  BY DEF InOrder, keys
<1>9. ASSUME NEW i \in 1 .. Len(s), NEW j \in 1 .. Len(s), i < j
      PROVE  v[s[i]] < v[s[j]]
  <2>1. s[i] \in Rows /\ s[j] \in Rows /\ s[i] # s[j] /\ i \in DOMAIN s /\ j \in DOMAIN s
    BY <1>8, <1>9, Enumerated
  <2>2. v[s[i]] # v[s[j]] /\ ~(v[s[j]] < v[s[i]])
    BY <1>6, <1>7, <1>8, <1>9, <2>1
  <2> QED  BY <1>5, <2>1, <2>2
<1> QED  BY <1>5, <1>9 DEF v

-----------------------------------------------------------------------------
(* Lists read to their end.                                                  *)

MeantRows == {row \in Rows : Wanted(row)}

(* The rank a row has in the list, as the table is now.                       *)
At(f, row) == Rank(Place(plan, f), table \cap MeantRows, row)

Reading(f) ==
    stage # "idle" /\ plan.first = 1 /\ Arriving /\ OneKey(plan, f) /\ Fitting(plan, page)

(* The pages before this one are in got.                                     *)
Early == {"asked", "loaded", "built", "selected", "failed"}

Following == Begins(plan, page + 1)

(* Nothing else than what is meant is read.                                  *)
ReadsMeant ==
    /\ stage = "idle" => got = <<>>
    /\ stage # "idle" /\ Arriving => /\ got \in Seq(MeantRows)
                                     /\ stage = "selected" => rows \in Seq(MeantRows)

(* A row that is not read has its turn with this page or a later one, and    *)
(* a full page is followed by another one.                                   *)
Ahead(f, row) == At(f, row) >= Following /\ Len(rows) >= Limited(plan)

Due(f, row) ==
    \/ stage \in Early /\ At(f, row) >= Begins(plan, page)
                       /\ (stage = "selected" => Holding(rows, row) \/ Ahead(f, row))
    \/ stage = "answered" /\ Ahead(f, row)

NoneMissed ==
    \A f \in Fields : Reading(f) /\ writes.deleted = {} =>
        \A row \in (table \ writes.inserted) \cap MeantRows : Holding(got, row) \/ Due(f, row)

(* A row that is read has had its turn, unless it is gone.                    *)
Past(f, s, n) == \A i \in 1 .. Len(s) : s[i] \in table => At(f, s[i]) < n

NoneTwice ==
    \A f \in Fields : Reading(f) /\ writes.inserted = {} =>
        /\ Distinct(got)
        /\ stage \in Early => Past(f, got, Begins(plan, page))
        /\ stage = "selected" => /\ Distinct(rows) /\ Past(f, rows, Following)
                                 /\ \A i \in 1 .. Len(got), j \in 1 .. Len(rows) : got[i] # rows[j]
        /\ stage = "answered" => Past(f, got, Following)

ReadingInv == ReadsMeant /\ NoneMissed /\ NoneTwice

LEMMA ReadingInit == PagingInit => ReadingInv
  BY DEF PagingInit, ReadingInv, ReadsMeant, NoneMissed, NoneTwice, Reading

(* When only the stage, the page, the search and the builder change.          *)
LEMMA SameTable ==
  ASSUME UNCHANGED <<table, plan>>
  PROVE  /\ MeantRows' = MeantRows /\ Arriving' = Arriving
         /\ \A f, row : At(f, row)' = At(f, row)
  BY DEF MeantRows, Arriving, Wanted, At, Place

LEMMA BeginReads ==
  ASSUME NEW p \in Plans, Begin(p), Requesting, ReadingInv
  PROVE  ReadingInv'
<1>1. /\ stage' = "asked" /\ plan' = p /\ page' = p.first /\ got' = <<>>
      /\ UNCHANGED <<rows, writes>>
  BY DEF Begin, ReadingInv, ReadsMeant
<1>2. IsFiniteSet(table')
  BY PagingAssumption DEF Begin
<1>3. \A f, row : At(f, row)' \in Nat
  <2>1. IsFiniteSet((table \cap MeantRows)')
    BY <1>2, FS_Intersection
  <2> QED  BY <2>1, RankGrows DEF At
<1>4. Begins(plan, page)' = 0 \/ plan'.first # 1
  <2>1. Limited(p) \in Int /\ (p.first = 1 => p.first - 1 = 0)
    BY PlanTypes
  <2> QED  BY <1>1, <2>1 DEF Begins
<1>5. ReadsMeant'
  BY <1>1 DEF ReadsMeant
<1>6. NoneMissed'
  BY <1>1, <1>3, <1>4 DEF NoneMissed, Reading, Due, Early
<1>7. NoneTwice'
  BY <1>1 DEF NoneTwice, Distinct, Past, Early
<1> QED  BY <1>5, <1>6, <1>7 DEF ReadingInv

(* Of the search and of its failures: the pages read so far stay.             *)
LEMMA WaitReads ==
  ASSUME Requesting, ReadingInv, LoadSearch \/ UseSearch \/ CountFails \/ AskAgain
                                 \/ \E C \in SUBSET Rows : SelectFails(C)
  PROVE  ReadingInv'
<1>1. /\ stage \in Early /\ stage' \in Early \ {"selected"}
      /\ UNCHANGED <<table, plan, page, got, writes>>
  BY DEF LoadSearch, UseSearch, CountFails, AskAgain, Ask, SelectFails, Early
<1>2. UNCHANGED <<MeantRows, Arriving>> /\ \A f, row : At(f, row)' = At(f, row)
  BY <1>1, SameTable
<1>3. \A f : Reading(f)' => Reading(f)
  BY <1>1, <1>2 DEF Reading, Early, Fitting, OneKey, Begins, Limited
<1>4. ReadsMeant'
  BY <1>1, <1>2 DEF ReadingInv, ReadsMeant, Early
<1>5. NoneMissed'
  BY <1>1, <1>2, <1>3 DEF ReadingInv, NoneMissed, Due, Early, Begins
<1>6. NoneTwice'
  BY <1>1, <1>2, <1>3 DEF ReadingInv, NoneTwice, Past, Early, Begins
<1> QED  BY <1>4, <1>5, <1>6 DEF ReadingInv

(* What a page has of the list that is read.                                 *)
LEMMA PageRead ==
  ASSUME Requesting, NEW C \in SUBSET Rows, SelectRows(C), Selects(C),
         NEW f \in Fields, Reading(f)
  PROVE  /\ Distinct(rows') /\ rows' \in Seq(table \cap MeantRows)
         /\ \A i \in 1 .. Len(rows') : /\ At(f, rows'[i]) >= Begins(plan, page)
                                       /\ At(f, rows'[i]) < Following
         /\ \A row \in table \cap MeantRows : At(f, row) >= Begins(plan, page) =>
               Holding(rows', row) \/ (At(f, row) >= Following /\ Len(rows') >= Limited(plan))
<1> DEFINE S == table \cap MeantRows
           v == Place(plan, f)
<1>1. C = MeantRows
  BY DEF Selects, Reading, MeantRows
<1>2. PICK s \in InOrder(builder.orderBy, S) : rows' = Window(builder, s)
  BY <1>1 DEF SelectRows
<1>3. S \in SUBSET Rows /\ IsFiniteSet(S)
  BY FS_Intersection DEF Requesting, Typed
<1>4. stage \in Requested \ {"loaded"} /\ plan \in Plans /\ page \in Nat \ {0}
  BY DEF SelectRows, Requested, Requesting, Typed
<1>5. PICK fs \in SetToSeqs(Sorted) : builder.orderBy = [i \in DOMAIN fs |-> SortKey(fs[i])]
  BY <1>4, Sending DEF Requesting
<1>6. /\ builder.limit = Limited(plan) /\ builder.offset = Begins(plan, page)
      /\ builder.limit \in Nat /\ builder.offset \in Nat /\ builder.limit > 0
  BY <1>4, Sending DEF Requesting, Reading
<1>7. builder.offset + builder.limit = Following
  BY <1>4, <1>6, PlanTypes DEF Following
<1> HIDE DEF S, v
<1>8. /\ \A x \in S : v[x] \in Int
      /\ \A i, j \in 1 .. Len(s) : i < j => v[s[i]] < v[s[j]]
  BY <1>2, <1>3, <1>4, <1>5, InPlace DEF Reading, Requesting, HasBounds, v
<1>9. s \in SetToSeqs(S)
  BY <1>2, <1>3, Ordered
<1>10. /\ rows' \in Seq(S) /\ Distinct(rows')
       /\ \A i \in 1 .. Len(rows') : /\ Rank(v, S, rows'[i]) >= builder.offset
                                     /\ Rank(v, S, rows'[i]) < builder.offset + builder.limit
       /\ \A x \in S : Rank(v, S, x) >= builder.offset =>
             Holding(rows', x)
               \/ (Rank(v, S, x) >= builder.offset + builder.limit /\ Len(rows') >= builder.limit)
  BY <1>2, <1>3, <1>6, <1>8, <1>9, PageOf
<1>11. \A x : At(f, x) = Rank(v, S, x)
  BY DEF At, S, v
<1> QED  BY <1>6, <1>7, <1>10, <1>11 DEF S

LEMMA SelectReads ==
  ASSUME Requesting, ReadingInv, NEW C \in SUBSET Rows, SelectRows(C), Selects(C)
  PROVE  ReadingInv'
<1>1. /\ stage = "built" /\ stage' = "selected" /\ chosen' = C
      /\ UNCHANGED <<table, plan, page, got>>
      /\ writes'.inserted = writes.inserted /\ writes'.deleted = writes.deleted
  BY DEF SelectRows, Requesting, Typed
<1>2. UNCHANGED <<MeantRows, Arriving>> /\ \A f, row : At(f, row)' = At(f, row)
  BY <1>1, SameTable
<1>3. \A f : Reading(f)' => Reading(f)
  BY <1>1, <1>2 DEF Reading, Fitting, OneKey, Begins, Limited
<1>4. ReadsMeant'
  <2> SUFFICES ASSUME Arriving
               PROVE  rows' \in Seq(MeantRows)
    BY <1>1, <1>2 DEF ReadingInv, ReadsMeant
  <2>1. C = MeantRows
    BY DEF Selects, MeantRows
  <2>2. PICK s \in InOrder(builder.orderBy, table \cap MeantRows) : rows' = Window(builder, s)
    BY <2>1 DEF SelectRows
  <2>3. s \in Seq(MeantRows)
    <3>1. table \cap MeantRows \in SUBSET Rows /\ IsFiniteSet(table \cap MeantRows)
      BY FS_Intersection DEF Requesting, Typed
    <3>2. s \in Seq(table \cap MeantRows)
      BY <2>2, <3>1, Ordered
    <3> QED  BY <3>2
  <2>4. builder.limit \in Nat /\ builder.offset \in Nat
    BY <1>1, Sending DEF Requesting, Requested
  <2> QED  BY <2>2, <2>3, <2>4, WindowSeq
<1>5. NoneMissed'
  <2> SUFFICES ASSUME NEW f \in Fields, Reading(f)', (writes.deleted = {})',
                      NEW row \in ((table \ writes.inserted) \cap MeantRows)'
               PROVE  Holding(got, row)' \/ Due(f, row)'
    BY DEF NoneMissed
  <2>1. row \in (table \ writes.inserted) \cap MeantRows /\ writes.deleted = {} /\ Reading(f)
    BY <1>1, <1>2, <1>3
  <2>2. Holding(got, row) \/ At(f, row) >= Begins(plan, page)
    BY <1>1, <2>1 DEF ReadingInv, NoneMissed, Due
  <2>3. At(f, row) >= Begins(plan, page) =>
          Holding(rows', row) \/ (At(f, row) >= Following /\ Len(rows') >= Limited(plan))
    BY <2>1, PageRead
  <2> QED  BY <1>1, <1>2, <2>2, <2>3 DEF Holding, Due, Early, Ahead, Begins, Following, Limited
<1>6. NoneTwice'
  <2> SUFFICES ASSUME NEW f \in Fields, Reading(f)', (writes.inserted = {})'
               PROVE  /\ Distinct(got)' /\ Past(f, got, Begins(plan, page))'
                      /\ Distinct(rows)' /\ Past(f, rows, Following)'
                      /\ \A i \in 1 .. Len(got'), j \in 1 .. Len(rows') : got'[i] # rows'[j]
    BY <1>1 DEF NoneTwice
  <2>1. Reading(f) /\ Distinct(got) /\ Past(f, got, Begins(plan, page))
    BY <1>1, <1>3 DEF ReadingInv, NoneTwice, Early
  <2>2. /\ Distinct(rows') /\ rows' \in Seq(table \cap MeantRows)
        /\ \A i \in 1 .. Len(rows') : /\ At(f, rows'[i]) >= Begins(plan, page)
                                      /\ At(f, rows'[i]) < Following
    BY <2>1, PageRead
  <2>3. \A i \in 1 .. Len(rows') : rows'[i] \in table
    BY <2>2
  <2>4. Past(f, got, Begins(plan, page))' /\ Past(f, rows, Following)'
    BY <1>1, <1>2, <2>1, <2>2 DEF Past, Begins, Following, Limited
  <2>5. \A i \in 1 .. Len(got), j \in 1 .. Len(rows') : got[i] # rows'[j]
    <3> SUFFICES ASSUME NEW i \in 1 .. Len(got), NEW j \in 1 .. Len(rows'), got[i] = rows'[j]
                 PROVE  FALSE
      OBVIOUS
    <3>1. At(f, got[i]) < Begins(plan, page) /\ At(f, got[i]) >= Begins(plan, page)
      BY <2>1, <2>2, <2>3 DEF Past
    <3>2. At(f, got[i]) \in Int /\ Begins(plan, page) \in Int
      <4>1. IsFiniteSet(table \cap MeantRows) /\ plan \in Plans /\ page \in Nat \ {0}
        BY <1>1, FS_Intersection DEF Requesting, Typed
      <4>2. At(f, got[i]) \in Nat
        BY <4>1, RankGrows DEF At
      <4> QED  BY <4>1, <4>2, PlanTypes
    <3> QED  BY <3>1, <3>2
  <2> QED  BY <1>1, <2>1, <2>2, <2>4, <2>5 DEF Distinct
<1> QED  BY <1>4, <1>5, <1>6 DEF ReadingInv

LEMMA CountReads ==
  ASSUME Requesting, ReadingInv, SelectCount
  PROVE  ReadingInv'
<1>1. /\ stage = "selected" /\ stage' = "answered" /\ got' = got \o rows
      /\ UNCHANGED <<table, plan, page, rows, writes>>
  BY DEF SelectCount
<1>2. UNCHANGED <<MeantRows, Arriving>> /\ \A f, row : At(f, row)' = At(f, row)
  BY <1>1, SameTable
<1>3. \A f : Reading(f)' => Reading(f)
  BY <1>1, <1>2 DEF Reading, Fitting, OneKey, Begins, Limited
<1>4. /\ got \in Seq(Rows) /\ rows \in Seq(Rows) /\ plan \in Plans /\ page \in Nat \ {0}
      /\ Len(got) \in Nat /\ Len(rows) \in Nat
  BY <1>1 DEF Requesting, Typed
<1>5. /\ Len(got') = Len(got) + Len(rows)
      /\ \A i \in 1 .. Len(got) : i \in 1 .. Len(got') /\ got'[i] = got[i]
      /\ \A j \in 1 .. Len(rows) : /\ Len(got) + j \in 1 .. Len(got')
                                   /\ got'[Len(got) + j] = rows[j]
      /\ \A i \in 1 .. Len(got') :
            \/ i \in 1 .. Len(got) /\ got'[i] = got[i]
            \/ i - Len(got) \in 1 .. Len(rows) /\ got'[i] = rows[i - Len(got)]
  BY <1>1, <1>4
<1>6. ReadsMeant'
  BY <1>1, <1>2 DEF ReadingInv, ReadsMeant
<1>7. NoneMissed'
  <2> SUFFICES ASSUME NEW f \in Fields, Reading(f)', (writes.deleted = {})',
                      NEW row \in ((table \ writes.inserted) \cap MeantRows)'
               PROVE  Holding(got, row)' \/ Due(f, row)'
    BY DEF NoneMissed
  <2>1. Holding(got, row) \/ Holding(rows, row) \/ Ahead(f, row)
    BY <1>1, <1>2, <1>3 DEF ReadingInv, NoneMissed, Due
  <2>2. Holding(got, row) \/ Holding(rows, row) => Holding(got', row)
    BY <1>5 DEF Holding
  <2>3. Ahead(f, row) => Ahead(f, row)'
    BY <1>1, <1>2 DEF Ahead, Following, Begins, Limited
  <2> QED  BY <1>1, <2>1, <2>2, <2>3 DEF Due, Holding
<1>8. NoneTwice'
  <2> SUFFICES ASSUME NEW f \in Fields, Reading(f)', (writes.inserted = {})'
               PROVE  /\ Distinct(got')
                      /\ \A i \in 1 .. Len(got') : got'[i] \in table => At(f, got'[i]) < Following
    BY <1>1, <1>2 DEF NoneTwice, Early, Distinct, Past, Following, Begins, Limited
  <2>1. /\ Reading(f) /\ Distinct(got) /\ Past(f, got, Begins(plan, page))
        /\ Distinct(rows) /\ Past(f, rows, Following)
        /\ \A i \in 1 .. Len(got), j \in 1 .. Len(rows) : got[i] # rows[j]
    BY <1>1, <1>3 DEF ReadingInv, NoneTwice, Early
  <2>2. Distinct(got')
    <3> SUFFICES ASSUME NEW i \in 1 .. Len(got'), NEW j \in 1 .. Len(got'), i # j
                 PROVE  got'[i] # got'[j]
      BY DEF Distinct
    <3>1. CASE i \in 1 .. Len(got) /\ got'[i] = got[i]
      BY <1>5, <2>1, <3>1 DEF Distinct
    <3>2. CASE i - Len(got) \in 1 .. Len(rows) /\ got'[i] = rows[i - Len(got)]
      <4>1. CASE j \in 1 .. Len(got) /\ got'[j] = got[j]
        BY <2>1, <3>2, <4>1
      <4>2. CASE j - Len(got) \in 1 .. Len(rows) /\ got'[j] = rows[j - Len(got)]
        <5>1. i - Len(got) # j - Len(got)
          BY <1>4
        <5> QED  BY <2>1, <3>2, <4>2, <5>1 DEF Distinct
      <4> QED  BY <1>5, <4>1, <4>2
    <3> QED  BY <1>5, <3>1, <3>2
  <2>3. ASSUME NEW i \in 1 .. Len(got'), got'[i] \in table
        PROVE  At(f, got'[i]) < Following
    <3>1. At(f, got'[i]) \in Nat
      <4>1. IsFiniteSet(table \cap MeantRows)
        BY FS_Intersection DEF Requesting, Typed
      <4> QED  BY <4>1, RankGrows DEF At
    <3>2. /\ Begins(plan, page) \in Int /\ Limited(plan) \in Int /\ Limited(plan) > 0
          /\ Following = Begins(plan, page) + Limited(plan)
      BY <1>4, <2>1, PlanTypes DEF Following, Reading, Fitting
    <3>3. At(f, got'[i]) < Begins(plan, page) \/ At(f, got'[i]) < Following
      BY <1>5, <2>1, <2>3 DEF Past
    <3> QED  BY <3>1, <3>2, <3>3
  <2> QED  BY <2>2, <2>3
<1> QED  BY <1>6, <1>7, <1>8 DEF ReadingInv

LEMMA NextPageReads ==
  ASSUME Requesting, ReadingInv, NextPage
  PROVE  ReadingInv'
<1>1. /\ stage = "answered" /\ stage' = "asked" /\ page' = page + 1
      /\ UNCHANGED <<table, plan, got, writes>>
  BY DEF NextPage, Ask
<1>2. UNCHANGED <<MeantRows, Arriving>> /\ \A f, row : At(f, row)' = At(f, row)
  BY <1>1, SameTable
<1>3. plan \in Plans /\ page \in Nat \ {0}
  BY <1>1 DEF Requesting, Typed
<1>4. \A f : Reading(f)' => Reading(f)
  <2>1. Fitting(plan, page + 1) => Fitting(plan, page)
    BY <1>3, PlanTypes
  <2>2. Fitting(plan, page)' = Fitting(plan, page + 1)
    BY <1>1 DEF Fitting, Begins, Limited
  <2>3. \A f : OneKey(plan, f)' = OneKey(plan, f)
    BY <1>1 DEF OneKey, LoadFieldSort
  <2> QED  BY <1>1, <1>2, <2>1, <2>2, <2>3 DEF Reading
<1>5. Begins(plan, page)' = Following
  BY <1>1 DEF Begins, Following, Limited
<1>6. ReadsMeant'
  BY <1>1, <1>2 DEF ReadingInv, ReadsMeant
<1>7. NoneMissed'
  BY <1>1, <1>2, <1>4, <1>5 DEF ReadingInv, NoneMissed, Due, Early, Ahead
<1>8. NoneTwice'
  BY <1>1, <1>2, <1>4, <1>5 DEF ReadingInv, NoneTwice, Early, Past
<1> QED  BY <1>6, <1>7, <1>8 DEF ReadingInv

LEMMA EndReads ==
  ASSUME Requesting, ReadingInv, EndOfList
  PROVE  ReadingInv'
<1>1. /\ stage = "answered" /\ stage' = "over" /\ Len(rows) < bounds.limit
      /\ UNCHANGED <<table, plan, page, rows, got, writes>>
  BY DEF EndOfList
<1>2. UNCHANGED <<MeantRows, Arriving>> /\ \A f, row : At(f, row)' = At(f, row)
  BY <1>1, SameTable
<1>3. ~(Len(rows) >= Limited(plan))
  <2>1. /\ plan \in Plans /\ page \in Nat \ {0} /\ bounds = LoadBoundaries(plan, page)
        /\ rows \in Seq(Rows)
    BY <1>1 DEF Requesting, Typed, HasBounds, Requested
  <2>2. bounds.limit = Limited(plan)
    BY <2>1, BoundsLoaded
  <2>3. Limited(plan) \in Int /\ Len(rows) \in Nat
    BY <2>1, PlanTypes
  <2> QED  BY <1>1, <2>2, <2>3
<1>4. \A f : Reading(f)' => Reading(f)
  BY <1>1, <1>2 DEF Reading, Fitting, OneKey, Begins, Limited
<1>5. ReadsMeant'
  BY <1>1, <1>2 DEF ReadingInv, ReadsMeant
<1>6. NoneMissed'
  BY <1>1, <1>2, <1>3, <1>4 DEF ReadingInv, NoneMissed, Due, Early, Ahead
<1>7. NoneTwice'
  BY <1>1, <1>2, <1>4 DEF ReadingInv, NoneTwice, Early
<1> QED  BY <1>5, <1>6, <1>7 DEF ReadingInv

(* An insertion moves rows to later ranks, a deletion to earlier ones.        *)
LEMMA OthersRead ==
  ASSUME Requesting, ReadingInv, Others
  PROVE  ReadingInv'
<1>1. PICK row \in Rows : Insert(row) \/ Delete(row)
  BY DEF Others
<1>2. UNCHANGED <<plan, page, stage, rows, got>> /\ stage \notin {"idle", "over"}
  BY <1>1 DEF Insert, Delete, MayWrite, Listed
<1>3. UNCHANGED <<MeantRows, Arriving>>
  BY <1>2 DEF MeantRows, Arriving, Wanted
<1>4. \A f : Reading(f)' => Reading(f)
  BY <1>2, <1>3 DEF Reading, Fitting, OneKey, Begins, Limited
<1>5. /\ plan \in Plans /\ page \in Nat \ {0} /\ IsFiniteSet(table)
      /\ Begins(plan, page) \in Int /\ Following \in Int
  <2>1. plan \in Plans /\ page \in Nat \ {0} /\ page + 1 \in Nat \ {0} /\ IsFiniteSet(table)
    BY <1>2 DEF Requesting, Typed
  <2> QED  BY <2>1, PlanTypes DEF Following
<1>6. ReadsMeant'
  BY <1>2, <1>3 DEF ReadingInv, ReadsMeant
<1>7. CASE Insert(row)
  <2>1. /\ table' = table \cup {row}
        /\ writes'.inserted = writes.inserted \cup {row} /\ writes'.deleted = writes.deleted
    BY <1>7, Wrote DEF Insert, Requesting
  <2>2. \A f, x : At(f, x) \in Nat /\ At(f, x)' \in Nat /\ At(f, x) <= At(f, x)'
    <3>1. /\ IsFiniteSet(table' \cap MeantRows)
          /\ table \cap MeantRows \in SUBSET (table' \cap MeantRows)
      BY <1>5, <2>1, FS_AddElement, FS_Intersection
    <3>2. \A f, x : At(f, x)' = Rank(Place(plan, f), table' \cap MeantRows, x)
      BY <1>2, <1>3 DEF At
    <3> QED  BY <3>1, <3>2, RankGrows DEF At
  <2>3. \A f, x : Ahead(f, x) => Ahead(f, x)'
    <3>1. UNCHANGED <<Following, rows, Limited(plan)>>
      BY <1>2 DEF Following, Begins, Limited
    <3> QED  BY <1>5, <2>2, <3>1 DEF Ahead
  <2>4. \A f, x : Due(f, x) => Due(f, x)'
    <3>1. UNCHANGED <<Begins(plan, page), stage, rows>>
      BY <1>2 DEF Begins, Limited
    <3> QED  BY <1>5, <2>2, <2>3, <3>1 DEF Due
  <2>5. NoneMissed'
    BY <1>2, <1>3, <1>4, <2>1, <2>4 DEF ReadingInv, NoneMissed, Holding
  <2>6. NoneTwice'
    BY <2>1 DEF NoneTwice
  <2> QED  BY <1>6, <2>5, <2>6 DEF ReadingInv
<1>8. CASE Delete(row)
  <2>1. /\ table' = table \ {row}
        /\ writes'.deleted = writes.deleted \cup {row} /\ writes'.inserted = writes.inserted
    BY <1>8, Wrote DEF Delete, Requesting
  <2>2. \A f, x : At(f, x) \in Nat /\ At(f, x)' \in Nat /\ At(f, x)' <= At(f, x)
    <3>1. /\ IsFiniteSet(table \cap MeantRows)
          /\ table' \cap MeantRows \in SUBSET (table \cap MeantRows)
      BY <1>5, <2>1, FS_Intersection
    <3>2. \A f, x : At(f, x)' = Rank(Place(plan, f), table' \cap MeantRows, x)
      BY <1>2, <1>3 DEF At
    <3> QED  BY <3>1, <3>2, RankGrows DEF At
  <2>3. NoneMissed'
    BY <2>1 DEF NoneMissed
  <2>4. ASSUME NEW f, NEW s, NEW n \in Int, Past(f, s, n)
        PROVE  \A i \in 1 .. Len(s) : s[i] \in table' => At(f, s[i])' < n
    <3> SUFFICES ASSUME NEW i \in 1 .. Len(s), s[i] \in table'
                 PROVE  At(f, s[i])' < n
      OBVIOUS
    <3>1. At(f, s[i]) < n
      BY <2>1, <2>4 DEF Past
    <3> QED  BY <2>2, <3>1
  <2>5. \A f : /\ Past(f, got, Begins(plan, page)) => Past(f, got, Begins(plan, page))'
               /\ Past(f, got, Following) => Past(f, got, Following)'
               /\ Past(f, rows, Following) => Past(f, rows, Following)'
    <3>1. UNCHANGED <<Begins(plan, page), Following, rows, got>>
      BY <1>2 DEF Following, Begins, Limited
    <3> QED  BY <1>5, <2>4, <3>1 DEF Past
  <2>6. NoneTwice'
    BY <1>2, <1>4, <2>1, <2>5 DEF ReadingInv, NoneTwice, Distinct
  <2> QED  BY <1>6, <2>3, <2>6 DEF ReadingInv
<1> QED  BY <1>1, <1>7, <1>8

LEMMA ReadingNext ==
  ASSUME Requesting, ReadingInv, [PagingNext]_<<searchVars, pagingVars>>
  PROVE  ReadingInv'
<1>1. CASE OnlySearch \/ UNCHANGED <<searchVars, pagingVars>>
  <2>1. UNCHANGED pagingVars
    BY <1>1 DEF OnlySearch
  <2>2. /\ UNCHANGED <<table, plan, page, stage, rows, got, writes>>
    BY <2>1 DEF pagingVars
  <2>3. UNCHANGED <<MeantRows, Arriving>> /\ \A f, row : At(f, row)' = At(f, row)
    BY <2>2, SameTable
  <2>4. /\ \A f : Reading(f)' = Reading(f)
        /\ UNCHANGED <<Begins(plan, page), Following, Limited(plan)>>
    BY <2>2, <2>3 DEF Reading, Fitting, OneKey, LoadFieldSort, Begins, Following, Limited
  <2>5. ReadsMeant'
    BY <2>2, <2>3 DEF ReadingInv, ReadsMeant
  <2>6. \A f, row : Due(f, row)' = Due(f, row)
    BY <2>2, <2>3, <2>4 DEF Due, Ahead, Holding
  <2>7. NoneMissed'
    BY <2>2, <2>3, <2>4, <2>6 DEF ReadingInv, NoneMissed, Holding
  <2>8. NoneTwice'
    BY <2>2, <2>3, <2>4 DEF ReadingInv, NoneTwice, Distinct, Past
  <2> QED  BY <2>5, <2>7, <2>8 DEF ReadingInv
<1>2. ASSUME NEW p \in Plans, Begin(p)
      PROVE  ReadingInv'
  BY <1>2, BeginReads
<1>3. CASE LoadSearch \/ UseSearch \/ CountFails \/ AskAgain
  BY <1>3, WaitReads
<1>4. ASSUME NEW C \in SUBSET Rows, SelectRows(C) \/ SelectFails(C), Selects(C)
      PROVE  ReadingInv'
  BY <1>4, SelectReads, WaitReads
<1>5. CASE SelectCount
  BY <1>5, CountReads
<1>6. CASE NextPage
  BY <1>6, NextPageReads
<1>7. CASE EndOfList
  BY <1>7, EndReads
<1>8. CASE Others
  BY <1>8, OthersRead
<1> QED  BY <1>1, <1>2, <1>3, <1>4, <1>5, <1>6, <1>7, <1>8 DEF PagingNext

LEMMA HeldOnce ==
  ASSUME NEW s \in Seq(Rows), NEW row
  PROVE  /\ Holding(s, row) => Holds(s, row) > 0
         /\ Distinct(s) => Holds(s, row) <= 1
<1> DEFINE I == {i \in DOMAIN s : s[i] = row}
<1>1. I = {i \in 1 .. Len(s) : s[i] = row} /\ Len(s) \in Nat
  OBVIOUS
<1>2. IsFiniteSet(I) /\ Cardinality(I) \in Nat
  <2>1. IsFiniteSet(1 .. Len(s)) /\ I \in SUBSET (1 .. Len(s))
    BY <1>1, FS_Interval
  <2> QED  BY <2>1, FS_Subset, FS_CardinalityType
<1> HIDE DEF I
<1>3. Holding(s, row) => I # {}
  BY <1>1 DEF Holding
<1>4. ASSUME Distinct(s), I # {}
      PROVE  Cardinality(I) = 1
  <2>1. PICK i \in I : TRUE
    BY <1>4
  <2>2. I = {i}
    BY <1>1, <1>4, <2>1 DEF Distinct
  <2> QED  BY <2>2, FS_Singleton
<1>5. Cardinality(I) = 0 <=> I = {}
  BY <1>2, FS_EmptySet
<1> QED  BY <1>2, <1>3, <1>4, <1>5 DEF Holds, I

(* For any table, limit and number of pages, whatever is written meanwhile:   *)
(* a list sorted by a unique column and read page by page to its end has only *)
(* rows that match, all of them unless some row was deleted, and none twice   *)
(* unless some row was inserted.                                             *)
THEOREM PagesCoverListHolds == PagingSpec => []PagesCoverList
<1>1. Requesting /\ ReadingInv => PagesCoverList
  <2> SUFFICES ASSUME Requesting, ReadingInv, stage = "over", plan.first = 1, Arriving,
                      SortedByKey, Fits(page)
               PROVE  /\ \A i \in DOMAIN got : Wanted(got[i])
                      /\ \A row \in table \ writes.inserted :
                            Wanted(row) /\ writes.deleted = {} => Holds(got, row) > 0
                      /\ \A row \in Rows : writes.inserted = {} => Holds(got, row) <= 1
    BY DEF PagesCoverList
  <2>1. PICK f \in Fields : Sorted = {f} /\ \A a, b \in Rows : Value[f][a] = Value[f][b] => a = b
    BY DEF SortedByKey
  <2>2. /\ bounds.limit = Limited(plan) /\ sort = LoadFieldSort(plan)
        /\ got \in Seq(Rows) /\ table \subseteq Rows
    BY BoundsLoaded DEF Requesting, Typed, HasBounds, Requested
  <2>3. Reading(f)
    BY <2>1, <2>2 DEF Reading, OneKey, Sorted, Fits, Fitting, Begins
  <2>4. got \in Seq(MeantRows)
    BY DEF ReadingInv, ReadsMeant
  <2>5. writes.deleted = {} => \A row \in (table \ writes.inserted) \cap MeantRows : Holding(got, row)
    BY <2>3 DEF ReadingInv, NoneMissed, Due, Early
  <2>6. writes.inserted = {} => Distinct(got)
    BY <2>3 DEF ReadingInv, NoneTwice
  <2>7. \A i \in DOMAIN got : Wanted(got[i])
    BY <2>4 DEF MeantRows
  <2>8. \A row \in table \ writes.inserted :
           Wanted(row) => row \in (table \ writes.inserted) \cap MeantRows
    BY <2>2 DEF MeantRows
  <2> HIDE DEF Holds, Wanted
  <2> QED  BY <2>2, <2>5, <2>6, <2>7, <2>8, HeldOnce
<1>2. Requesting /\ ReadingInv /\ [PagingNext]_<<searchVars, pagingVars>> => ReadingInv'
  BY ReadingNext
<1> QED  BY <1>1, <1>2, ReadingInit, RequestingHolds, PTL DEF PagingSpec


-----------------------------------------------------------------------------
(* The criteria while they are made.                                        *)

SearchTyped == search \in Searches

QueryInv ==
    /\ WhereIs
    /\ where = <<>> <=> asked = <<>>
    /\ SearchTyped

LEMMA LoadedTyped ==
  ASSUME LoadUrl
  PROVE  SearchTyped'
  BY LoadedSearch DEF SearchTyped, Loaded

CompareOps == UrlOps \cup {"in"}

LEMMA WordsFinite == IsFiniteSet(CompareOps) /\ IsFiniteSet(Spellings)
<1>1. IsFiniteSet(CompareOps)
  <2> DEFINE w == <<"eq", "null", "notnull", "gt", "gte", "lt", "lte", "not", "neq",
                    "ends", "has", "begins", "in">>
  <2>1. w \in [1 .. 13 -> CompareOps]
    BY DEF CompareOps, UrlOps, NullOps, LikeOps
  <2>2. \A x \in CompareOps : \E i \in 1 .. 13 : w[i] = x
    <3>1. {w[i] : i \in 1 .. 13} = CompareOps
      BY DEF CompareOps, UrlOps, NullOps, LikeOps
    <3> HIDE DEF w
    <3> QED  BY <3>1
  <2> HIDE DEF w
  <2>3. w \in Surjection(1 .. 13, CompareOps)
    BY <2>1, <2>2 DEF Surjection
  <2>4. IsFiniteSet(1 .. 13)
    <3>1. 1 \in Int /\ 13 \in Int
      OBVIOUS
    <3> QED  BY <3>1, FS_Interval
  <2> QED  BY <2>3, <2>4, FS_Surjection
<1>2. IsFiniteSet(Spellings)
  <2>1. IsFiniteSet({} \cup {"named"})
    BY FS_EmptySet, FS_AddElement
  <2>2. IsFiniteSet(({} \cup {"named"}) \cup {"Camel"})
    BY <2>1, FS_AddElement
  <2>3. IsFiniteSet((({} \cup {"named"}) \cup {"Camel"}) \cup {"camel"})
    BY <2>2, FS_AddElement
  <2>4. Spellings = (({} \cup {"named"}) \cup {"Camel"}) \cup {"camel"}
    BY DEF Spellings
  <2> QED  BY <2>3, <2>4
<1> QED  BY <1>1, <1>2

LEMMA KeysFinite == IsFiniteSet(Keys)
<1> DEFINE D == (Fields \X CompareOps) \X Spellings
           K == [field : Fields, op : CompareOps, spelt : Spellings]
           g == [p \in D |-> [field |-> p[1][1], op |-> p[1][2], spelt |-> p[2]]]
<1>1. IsFiniteSet(D)
  BY WordsFinite, UrlAssumption, FS_Product
<1>2. g \in [D -> K]
  OBVIOUS
<1>3. ASSUME NEW k \in K PROVE \E p \in D : g[p] = k
  <2> DEFINE q == <<<<k.field, k.op>>, k.spelt>>
  <2>1. q \in D /\ g[q] = k
    OBVIOUS
  <2> QED  BY <2>1
<1>4. Keys \subseteq K
  BY DEF Keys, CompareOps
<1> HIDE DEF D, K, g
<1>5. g \in Surjection(D, K)
  BY <1>2, <1>3 DEF Surjection
<1>6. IsFiniteSet(K)
  BY <1>1, <1>5, FS_Surjection
<1> QED  BY <1>4, <1>6, FS_Subset

LEMMA ComparisonsFinite == IsFiniteSet(Comparisons)
<1> DEFINE V == Keys \cup {Nil}
           D == (Fields \X CompareOps) \X V
           K == [field : Fields, op : CompareOps, of : V]
           g == [p \in D |-> [field |-> p[1][1], op |-> p[1][2], of |-> p[2]]]
<1>1. IsFiniteSet(V)
  BY KeysFinite, FS_AddElement
<1> HIDE DEF V
<1>2. IsFiniteSet(D)
  BY <1>1, WordsFinite, UrlAssumption, FS_Product
<1>3. g \in [D -> K]
  OBVIOUS
<1>4. ASSUME NEW k \in K PROVE \E p \in D : g[p] = k
  <2> DEFINE q == <<<<k.field, k.op>>, k.of>>
  <2>1. q \in D /\ g[q] = k
    OBVIOUS
  <2> QED  BY <2>1
<1>5. Comparisons = K
  BY DEF Comparisons, CompareOps, V
<1> HIDE DEF D, K, g
<1>6. g \in Surjection(D, K)
  BY <1>3, <1>4 DEF Surjection
<1> QED  BY <1>2, <1>5, <1>6, FS_Surjection

(* Filters are comparisons, and null checks alone are with nil.               *)
LEMMA FiltersCompare ==
  ASSUME SearchTyped
  PROVE  /\ UrlFieldParams(search) \in SUBSET Comparisons /\ IsFiniteSet(UrlFieldParams(search))
         /\ \A c \in UrlFieldParams(search) : Written(c) = c
<1>1. ASSUME NEW c \in UrlFieldParams(search)
      PROVE  c \in Comparisons /\ Written(c) = c
  <2>1. CASE \E f \in Fields : \E k \in search.fields[f] : c = Compare(f, "eq", k)
    <3>1. PICK f \in Fields : \E k \in search.fields[f] : c = Compare(f, "eq", k)
      BY <2>1
    <3>2. PICK k \in search.fields[f] : c = Compare(f, "eq", k)
      BY <3>1
    <3>3. k \in Keys /\ k # Nil /\ "eq" \in UrlOps
      BY UrlAssumption DEF SearchTyped, Searches, UrlOps
    <3> QED  BY <3>2, <3>3 DEF Compare, Comparisons, Written
  <2>2. CASE c \in search.null
    <3>1. c \in [field : Fields, op : NullOps, of : {Nil}]
      BY <2>2 DEF SearchTyped, Searches
    <3>2. c \in Comparisons /\ c.op \in {"null", "notnull"}
      BY <3>1 DEF Comparisons, UrlOps, NullOps
    <3>3. c.op = "null" => [c EXCEPT !.op = "null"] = c
      BY <3>1
    <3> QED  BY <3>2, <3>3 DEF Written
  <2>3. CASE c \in search.compared
    <3>1. c \in [field : Fields, op : UrlOps, of : Keys]
      BY <2>3 DEF SearchTyped, Searches
    <3>2. c \in Comparisons /\ c.of # Nil
      BY <3>1, UrlAssumption DEF Comparisons
    <3> QED  BY <3>2 DEF Written
  <2> QED  BY <2>1, <2>2, <2>3, InParams
<1>2. UrlFieldParams(search) \in SUBSET Comparisons
  BY <1>1
<1> QED  BY <1>1, <1>2, ComparisonsFinite, FS_Subset

(* The condition FromUrlParams makes of the filters, in some order.          *)
Filtering(ls) ==
    [kind |-> "and", of |-> [i \in DOMAIN ls |-> [kind |-> "leaves", of |-> <<ls[i]>>]]]

LEMMA FilteringIs ==
  ASSUME SearchTyped, NEW ls \in SetToSeqs(UrlFieldParams(search))
  PROVE  /\ Filtering(ls) \in UrlConditions /\ Filtering(ls) \in NodeConditions
         /\ DOMAIN Filtering(ls).of = DOMAIN ls
         /\ ToSet(ls) = UrlFieldParams(search)
<1> DEFINE S == UrlFieldParams(search)
           s == [i \in DOMAIN ls |-> [kind |-> "leaves", of |-> <<ls[i]>>]]
<1>1. IsFiniteSet(S) /\ S \subseteq Comparisons
  BY FiltersCompare
<1>2. /\ ls \in Seq(S) /\ DOMAIN ls = 1 .. Len(ls)
      /\ \A x \in S : \E i \in 1 .. Len(ls) : ls[i] = x
  <2> HIDE DEF S
  <2>1. ls \in SetToSeqs(S)
    BY DEF S
  <2> QED  BY <1>1, <2>1, Enumerated
<1> HIDE DEF S
<1>3. ToSet(ls) = S
  BY <1>2 DEF ToSet
<1>4. \A i \in DOMAIN ls : [kind |-> "leaves", of |-> <<ls[i]>>] \in Leaves
  BY <1>1, <1>2 DEF Leaves
<1>5. s \in Seq(Leaves)
  <2> DEFINE n == Len(ls)
  <2>1. n \in Nat /\ DOMAIN ls = 1 .. n
    BY <1>2
  <2>2. s \in [1 .. n -> Leaves]
    <3> HIDE DEF n
    <3> QED  BY <1>4, <2>1
  <2> HIDE DEF s, n
  <2> QED  BY <2>1, <2>2
<1>6. Filtering(ls) \in UrlConditions
  BY <1>5 DEF Filtering, UrlConditions
<1> QED  BY <1>3, <1>6 DEF Filtering, NodeConditions, S

LEMMA AppendedTo ==
  ASSUME QueryInv, NEW c \in Parts, Where(c)
  PROVE  WhereIs' /\ (where = <<>> <=> asked = <<>>)'
<1> DEFINE L == IF where = <<>> THEN NoChildren ELSE where[1]
<1>1. asked \in Seq(Parts) /\ asked' = Append(asked, c) /\ where' = <<AppendTo(L, c)>>
  BY DEF QueryInv, WhereIs, Where
<1>2. asked' \in Seq(Parts) /\ asked' # <<>> /\ where' # <<>> /\ where'[1] = AppendTo(L, c)
  BY <1>1
<1>3. ASSUME NEW cs \in Constraints
      PROVE  L[cs] \o Appended(c, "and", cs) = ListOf(asked', "and", cs)
  <2> DEFINE h == [d \in Parts |-> Appended(d, "and", cs)]
             B == EntriesOf(Parts)
  <2>1. /\ h \in [Parts -> Seq(B)] /\ ListOf(asked, "and", cs) = Gather(asked, h)
        /\ ListOf(asked', "and", cs) = Gather(asked', h)
    <3>1. Parts \in SUBSET Parts /\ "and" \in Constraints
      BY DEF Constraints
    <3>2. h \in [Parts -> Seq(B)] /\ ListOf(asked, "and", cs) = Gather(asked, h)
      BY <1>1, <3>1, ListIsGathered
    <3>3. ListOf(asked', "and", cs) = Gather(asked', h)
      BY <1>2, <3>1, ListIsGathered
    <3> QED  BY <3>2, <3>3
  <2>2. L[cs] = Gather(asked, h)
    <3>1. CASE where = <<>>
      <4>1. asked = <<>> /\ L[cs] = <<>>
        BY <3>1 DEF QueryInv, NoChildren
      <4> QED  BY <4>1, GatherEmpty
    <3>2. CASE where # <<>>
      <4>1. L[cs] = ListOf(asked, "and", cs)
        BY <3>2 DEF QueryInv, WhereIs
      <4> QED  BY <2>1, <4>1
    <3> QED  BY <3>1, <3>2
  <2>3. h[c] = Appended(c, "and", cs)
    OBVIOUS
  <2> HIDE DEF h, B, L
  <2>4. Gather(asked', h) = Gather(asked, h) \o h[c]
    BY <1>1, <2>1, GatherAppend
  <2> QED  BY <2>1, <2>2, <2>3, <2>4
<1> HIDE DEF L
<1>4. where'[1] = [cs \in Constraints |-> ListOf(asked', "and", cs)]
  BY <1>2, <1>3 DEF AppendTo
<1> QED  BY <1>2, <1>4 DEF WhereIs, ListOf

LEMMA ConditionsAreParts == Conditions \subseteq Parts /\ NodeConditions \subseteq Parts
<1>1. ASSUME NEW c \in Conditions PROVE c \in Parts
  <2>1. CASE c \in Leaves
    BY <2>1 DEF Parts
  <2>2. CASE c \notin Leaves
    <3>1. c \in [kind : Constraints, of : Seq(Leaves \cup Conditions)]
      BY <2>2, QueryAssumption
    <3> QED  BY <3>1 DEF Parts, NodeConditions, IsNode
  <2> QED  BY <2>1, <2>2
<1> QED  BY <1>1 DEF Parts

LEMMA QueryInit == Init => QueryInv
<1> SUFFICES ASSUME Init PROVE QueryInv
  OBVIOUS
<1>1. asked = <<>> /\ where = <<>> /\ search = NoSearch
  BY DEF Init, SearchInit
<1>2. SearchTyped
  BY <1>1, Unloaded DEF SearchTyped
<1> QED  BY <1>1, <1>2 DEF QueryInv, WhereIs

LEMMA QueryNext ==
  ASSUME QueryInv, Next
  PROVE  QueryInv'
<1>1. ASSUME NEW c \in Conditions, UseWhere(c) PROVE QueryInv'
  <2>1. c \in Parts /\ Where(c) /\ UNCHANGED searchVars
    BY <1>1, ConditionsAreParts DEF UseWhere
  <2>2. WhereIs' /\ (where = <<>> <=> asked = <<>>)'
    BY <2>1, AppendedTo
  <2>3. SearchTyped'
    BY <2>1 DEF QueryInv, SearchTyped, searchVars
  <2> QED  BY <2>2, <2>3 DEF QueryInv
<1>2. CASE LoadQuery
  <2>1. SearchTyped'
    BY <1>2, LoadedTyped DEF LoadQuery
  <2> QED  BY <1>2, <2>1 DEF LoadQuery, QueryInv, WhereIs
<1>3. CASE FromUrlParams
  <2>1. PICK ls \in SetToSeqs(UrlFieldParams(search)) : Where(Filtering(ls))
    BY <1>3, Zenon DEF FromUrlParams, Filtering
  <2>2. Filtering(ls) \in Parts
    BY FilteringIs, ConditionsAreParts DEF QueryInv
  <2>3. WhereIs' /\ (where = <<>> <=> asked = <<>>)'
    BY <2>1, <2>2, AppendedTo
  <2>4. SearchTyped'
    BY <1>3 DEF FromUrlParams, UseParams, QueryInv, SearchTyped
  <2> QED  BY <2>3, <2>4 DEF QueryInv
<1> QED  BY <1>1, <1>2, <1>3 DEF Next

LEMMA QueryKept ==
  ASSUME QueryInv, UNCHANGED <<asked, where, search>>
  PROVE  QueryInv'
  BY DEF QueryInv, WhereIs, SearchTyped

-----------------------------------------------------------------------------
(* Listing: the criteria and the lists together.                             *)

ClauseReset == asked' = <<>> /\ where' = <<>> /\ NewSearch

LEMMA ListingMoves ==
  ASSUME [ListingNext]_allVars
  PROVE  Next \/ ClauseReset \/ UNCHANGED <<asked, where, search>>
<1>1. CASE UNCHANGED allVars
  BY <1>1 DEF allVars, vars, searchVars
<1>2. CASE OnlyBuild
  BY <1>2 DEF OnlyBuild
<1>3. ASSUME NEW p \in Plans, Begin(p), UNCHANGED clauseVars
      PROVE  UNCHANGED <<asked, where, search>>
  BY <1>3 DEF Begin, clauseVars, searchVars
<1>4. CASE LoadQuery \/ FromUrlParams
  BY <1>4 DEF Next
<1>5. ASSUME NEW C, SelectRows(C) \/ SelectFails(C), UNCHANGED clauseVars
      PROVE  UNCHANGED <<asked, where, search>>
  BY <1>5 DEF SelectRows, SelectFails, clauseVars, searchVars
<1>6. CASE (SelectCount \/ CountFails \/ EndOfList) /\ UNCHANGED clauseVars
  BY <1>6 DEF SelectCount, CountFails, EndOfList, clauseVars, searchVars
<1>7. CASE (NextPage \/ AskAgain) /\ asked' = <<>> /\ where' = <<>>
  BY <1>7 DEF NextPage, AskAgain, Ask, ClauseReset
<1>8. CASE Others /\ UNCHANGED clauseVars
  BY <1>8 DEF Others, Insert, Delete, clauseVars, searchVars
<1> QED  BY <1>1, <1>2, <1>3, <1>4, <1>5, <1>6, <1>7, <1>8 DEF ListingNext

LEMMA ResetKeeps ==
  ASSUME ClauseReset
  PROVE  QueryInv'
<1>1. SearchTyped'
  BY Unloaded DEF ClauseReset, NewSearch, SearchTyped
<1> QED  BY <1>1 DEF ClauseReset, QueryInv, WhereIs

LEMMA QueryInvHolds == ListingSpec => []QueryInv
<1>1. ListingInit => QueryInv
  BY QueryInit DEF ListingInit
<1>2. QueryInv /\ [ListingNext]_allVars => QueryInv'
  BY ListingMoves, QueryNext, ResetKeeps, QueryKept
<1> QED  BY <1>1, <1>2, PTL DEF ListingSpec

(* Conditions nested to any depth, any number of calls of Where, any filters  *)
(* of a query string, and whatever the order the maps of the nodes are ranged *)
(* over in: unless a node holds two nodes of the other kind, the text is true *)
(* of exactly the rows the conditions mean, and empty when they say nothing.  *)
THEOREM ClauseMeansConditionsHolds == ListingSpec => []ClauseMeansConditions
<1>1. QueryInv => ClauseMeansConditions
  BY WhereIsMeans DEF QueryInv
<1> QED  BY <1>1, QueryInvHolds, PTL

(* Argument $i belongs to the i-th placeholder, for the same conditions, the   *)
(* regrouped ones included, in every order of the maps.                      *)
THEOREM ArgumentsMatchTextHolds == ListingSpec => []ArgumentsMatchText
<1>1. QueryInv => ArgumentsMatchText
  BY WhereIsMatches DEF QueryInv
<1> QED  BY <1>1, QueryInvHolds, PTL
-----------------------------------------------------------------------------
(* The clause of a list is made of the filters its query string had.          *)

Kept == Telling(request) => Keeps(request, UrlFieldParams(search))

LEMMA LoadKept ==
  ASSUME LoadUrl
  PROVE  Kept'
<1>1. request' \in Requests /\ Loaded(search', request')
  BY LoadedSearch
<1>2. Telling(request') => Keeps(request', UrlFieldParams(search'))
  BY <1>1, TellingKept
<1> QED  BY <1>2 DEF Kept

ClauseOfFilters ==
    \E ls \in SetToSeqs(UrlFieldParams(search)) : asked = <<Filtering(ls)>>

StageInv ==
    /\ stage \in {"asked", "loaded"} => asked = <<>>
    /\ stage \in {"loaded", "built"} => request = plan.filters /\ Kept
    /\ stage = "built" => ClauseOfFilters

Building == {"asked", "loaded", "built"}

LEMMA StageNext ==
  ASSUME QueryInv, StageInv, [ListingNext]_allVars
  PROVE  StageInv'
<1>1. CASE UNCHANGED allVars
  BY <1>1 DEF allVars, vars, searchVars, pagingVars, StageInv, Kept, ClauseOfFilters
<1>2. CASE OnlyBuild
  <2>1. stage' = "idle"
    BY <1>2 DEF OnlyBuild, pagingVars
  <2> QED  BY <2>1 DEF StageInv
<1>3. ASSUME NEW p \in Plans, asked = <<>>, Begin(p), UNCHANGED clauseVars
      PROVE  StageInv'
  <2>1. stage' = "asked" /\ asked' = <<>>
    BY <1>3 DEF Begin, clauseVars
  <2> QED  BY <2>1 DEF StageInv
<1>4. CASE LoadSearch /\ LoadQuery
  <2>1. /\ stage' = "loaded" /\ asked' = <<>> /\ plan' = plan /\ request' = plan.filters
        /\ LoadUrl
    BY <1>4 DEF LoadSearch, LoadQuery
  <2>2. Kept'
    BY <2>1, LoadKept
  <2> QED  BY <2>1, <2>2 DEF StageInv
<1>5. CASE UseSearch /\ FromUrlParams
  <2>1. /\ stage = "loaded" /\ stage' = "built" /\ plan' = plan
        /\ UNCHANGED <<request, search>>
    BY <1>5 DEF UseSearch, UseParams
  <2>2. PICK ls \in SetToSeqs(UrlFieldParams(search)) : Where(Filtering(ls))
    BY <1>5, Zenon DEF FromUrlParams, Filtering
  <2>3. asked' = <<Filtering(ls)>>
    BY <2>1, <2>2 DEF StageInv, Where
  <2>4. UrlFieldParams(search') = UrlFieldParams(search)
    BY <2>1
  <2>5. ClauseOfFilters'
    BY <2>3, <2>4 DEF ClauseOfFilters
  <2>6. Kept'
    BY <2>1 DEF StageInv, Kept
  <2> QED  BY <2>1, <2>5, <2>6 DEF StageInv
<1>6. ASSUME NEW C, SelectRows(C) \/ SelectFails(C)
      PROVE  StageInv'
  <2>1. stage' \notin Building
    BY <1>6 DEF SelectRows, SelectFails, Building
  <2> QED  BY <2>1 DEF StageInv, Building
<1>7. CASE SelectCount \/ CountFails \/ EndOfList
  <2>1. stage' \notin Building
    BY <1>7 DEF SelectCount, CountFails, EndOfList, Building
  <2> QED  BY <2>1 DEF StageInv, Building
<1>8. CASE (NextPage \/ AskAgain) /\ asked' = <<>> /\ where' = <<>>
  <2>1. stage' = "asked" /\ asked' = <<>>
    BY <1>8 DEF NextPage, AskAgain, Ask
  <2> QED  BY <2>1 DEF StageInv
<1>9. CASE Others /\ UNCHANGED clauseVars
  <2>1. UNCHANGED <<asked, where, request, search, status, plan, stage>>
    BY <1>9 DEF Others, Insert, Delete, clauseVars, searchVars
  <2> QED  BY <2>1 DEF StageInv, Kept, ClauseOfFilters
<1> QED  BY <1>1, <1>2, <1>3, <1>4, <1>5, <1>6, <1>7, <1>8, <1>9 DEF ListingNext

(* What the clause of filters selects.                                       *)
LEMMA FilteringSays ==
  ASSUME SearchTyped, NEW ls \in SetToSeqs(UrlFieldParams(search))
  PROVE  /\ Said(Filtering(ls)) = UrlFieldParams(search)
         /\ ~Regrouped[Filtering(ls)]
         /\ \A S, m : MeansOf(S, m) => (m[Filtering(ls)] <=> UrlFieldParams(search) \subseteq S)
<1> DEFINE c == Filtering(ls)
<1>1. c \in NodeConditions /\ DOMAIN c.of = DOMAIN ls /\ ToSet(ls) = UrlFieldParams(search)
  BY FilteringIs
<1>2. c.kind = "and" /\ \A i \in DOMAIN ls : c.of[i] = [kind |-> "leaves", of |-> <<ls[i]>>]
  BY DEF Filtering
<1>3. \A i \in DOMAIN ls : ~IsNode(c.of[i]) /\ c.of[i].kind = "leaves" /\ ToSet(c.of[i].of) = {ls[i]}
  <2>1. \A x : ToSet(<<x>>) = {x}
    BY DEF ToSet
  <2> HIDE DEF c
  <2>2. \A x : [kind |-> "leaves", of |-> <<x>>].kind = "leaves"
               /\ [kind |-> "leaves", of |-> <<x>>].of = <<x>>
    OBVIOUS
  <2>3. \A i \in DOMAIN ls : c.of[i].kind = "leaves" /\ c.of[i].of = <<ls[i]>>
    <3> TAKE i \in DOMAIN ls
    <3>1. c.of[i] = [kind |-> "leaves", of |-> <<ls[i]>>]
      BY <1>2
    <3> QED  BY <2>2, <3>1, Zenon
  <2> QED  BY <2>1, <2>3 DEF IsNode, Constraints
<1> HIDE DEF c
<1>4. \A i \in DOMAIN ls : Said(c.of[i]) = {ls[i]}
  BY <1>3 DEF Said
<1>5. Said(c) = UrlFieldParams(search)
  <2>1. Said(c) = UNION {Said(c.of[i]) : i \in DOMAIN c.of}
    BY <1>1, NodeSays
  <2>2. Said(c) = {ls[i] : i \in DOMAIN ls}
    BY <1>1, <1>4, <2>1
  <2> QED  BY <1>1, <2>2 DEF ToSet
<1>6. ~Regrouped[c]
  <2>1. ~TwoOthers(c.kind, c.of)
    BY <1>1, <1>3 DEF TwoOthers, Constraints
  <2> QED  BY <1>1, <1>3, <2>1, NodeRegroups
<1>7. ASSUME NEW S, NEW m, MeansOf(S, m)
      PROVE  m[c] <=> UrlFieldParams(search) \subseteq S
  <2>1. m[c] <=> PartsMean(c.kind, c.of, m, S)
    BY <1>1, <1>7, NodeMeans
  <2>2. \A i \in DOMAIN ls : PartMeans("and", c.of[i], m, S) <=> ls[i] \in S
    BY <1>3 DEF PartMeans
  <2>3. PartsMean("and", c.of, m, S) <=> \A i \in DOMAIN ls : ls[i] \in S
    BY <1>1, <1>4, <2>2 DEF PartsMean
  <2>4. UrlFieldParams(search) = {ls[i] : i \in DOMAIN ls}
    BY <1>1 DEF ToSet
  <2> QED  BY <1>2, <2>1, <2>3, <2>4
<1> QED  BY <1>5, <1>6, <1>7 DEF c

LEMMA ClauseSelects ==
  ASSUME QueryInv, StageInv, stage = "built", NEW C \in Matching
  PROVE  C \in SUBSET Rows /\ Selects(C)
<1>1. PICK order \in RangeOrders :
        C = {row \in Rows : Build(order).reads = <<>> \/ Build(order).holds[Facts[row]]}
  BY Zenon DEF Matching
<1> SUFFICES ASSUME Arriving PROVE C = {row \in Rows : Wanted(row)}
  BY <1>1 DEF Selects
<1> DEFINE P == UrlFieldParams(search)
<1>2. Keeps(plan.filters, P)
  <2>1. Telling(plan.filters)
    BY DEF Arriving, Telling
  <2> QED  BY <2>1 DEF StageInv, Kept
<1>3. PICK ls \in SetToSeqs(P) : asked = <<Filtering(ls)>>
  BY DEF StageInv, ClauseOfFilters
<1> DEFINE c == Filtering(ls)
<1>4. /\ Said(c) = P /\ ~Regrouped[c]
      /\ \A S, m : MeansOf(S, m) => (m[c] <=> P \subseteq S)
  BY FilteringSays DEF QueryInv
<1>5. c \in NodeConditions /\ \A l \in P : Written(l) = l
  BY FilteringIs, FiltersCompare DEF QueryInv
<1> HIDE DEF c, P
<1>6. asked = <<c>> /\ DOMAIN asked = {1} /\ asked[1] = c
  BY <1>3 DEF c
<1>7. ~RegroupedIn(asked)
  <2>1. ~TwoOthers("and", asked)
    BY <1>6 DEF TwoOthers
  <2> QED  BY <1>4, <1>6, <2>1 DEF RegroupedIn
<1>8. AllAsked = P /\ Misread = {}
  <2>1. AllAsked = P
    BY <1>4, <1>6 DEF AllAsked
  <2> QED  BY <1>5, <2>1 DEF Misread
<1>9. ASSUME NEW S \in SUBSET Comparisons
      PROVE  Build(order).reads = <<>> \/ Build(order).holds[S] <=> P \subseteq S
  <2>1. WhereIs /\ where # <<>>
    BY <1>6 DEF QueryInv
  <2>2. /\ Build(order).reads # <<>> <=> P # {}
        /\ Build(order).reads # <<>> => (Build(order).holds[S] <=> Meant(asked, S))
    BY <1>7, <1>8, <2>1, ClauseMeans
  <2>3. P # {} => (Meant(asked, S) <=> P \subseteq S)
    <3>1. PICK m : MeansOf(S, m) /\ (Meant(asked, S) <=> PartsMean("and", asked, m, S))
      BY MeantIs
    <3>2. PartsMean("and", asked, m, S) <=> (Said(c) # {} => PartMeans("and", c, m, S))
      BY <1>6 DEF PartsMean
    <3>3. PartMeans("and", c, m, S) <=> m[c]
      BY <1>5, KindsApart DEF PartMeans
    <3> QED  BY <1>4, <3>1, <3>2, <3>3
  <2> QED  BY <2>2, <2>3
<1>10. \A row \in Rows : Facts[row] \in SUBSET Comparisons
  BY ListingAssumption
<1>11. ASSUME NEW row \in Rows
       PROVE  Wanted(row) <=> P \subseteq Facts[row]
  <2>1. P \subseteq Facts[row] => Wanted(row)
    BY <1>2 DEF Wanted, Keeps, FiltersOf
  <2>2. ASSUME Wanted(row), NEW l \in P PROVE l \in Facts[row]
    <3>1. CASE l \in FiltersOf(plan.filters)
      BY <2>2, <3>1 DEF Wanted, FiltersOf
    <3>2. CASE Implied(plan.filters, l)
      <4>1. PICK k \in plan.filters : k.op = "eq" /\ l = Compare(k.field, "ends", k)
        BY <3>2 DEF Implied
      <4>2. Compares(k) \in Facts[row] /\ Compares(k) = Compare(k.field, "eq", k)
        BY <2>2, <4>1 DEF Wanted, Compares, NullOps
      <4>3. [Compare(k.field, "eq", k) EXCEPT !.op = "ends"] = l
        BY <4>1 DEF Compare
      <4>4. Compare(k.field, "eq", k).op = "eq"
        BY DEF Compare
      <4> QED  BY <4>2, <4>3, <4>4, ListingAssumption
    <3> QED  BY <1>2, <2>2, <3>1, <3>2 DEF Keeps
  <2> QED  BY <2>1, <2>2
<1> QED  BY <1>1, <1>9, <1>10, <1>11

LEMMA ListingStep ==
  ASSUME QueryInv, StageInv, [ListingNext]_allVars
  PROVE  [PagingNext]_<<searchVars, pagingVars>>
<1>1. CASE UNCHANGED allVars
  BY <1>1 DEF allVars, vars
<1>2. CASE OnlyBuild
  <2>1. (\E c \in Conditions : UseWhere(c)) => UNCHANGED <<searchVars, pagingVars>>
    BY <1>2 DEF OnlyBuild, UseWhere
  <2>2. LoadQuery \/ FromUrlParams => OnlySearch
    BY <1>2 DEF OnlyBuild, OnlySearch, LoadQuery, FromUrlParams
  <2> QED  BY <1>2, <2>1, <2>2 DEF OnlyBuild, Next, PagingNext
<1>3. ASSUME NEW C \in Matching, SelectRows(C) \/ SelectFails(C)
      PROVE  PagingNext
  <2>1. stage = "built"
    BY <1>3 DEF SelectRows, SelectFails
  <2>2. C \in SUBSET Rows /\ Selects(C)
    BY <2>1, ClauseSelects
  <2> QED  BY <1>3, <2>2 DEF PagingNext
<1>4. ListingNext =>
        \/ OnlyBuild
        \/ \E p \in Plans : Begin(p)
        \/ LoadSearch \/ UseSearch
        \/ \E C \in Matching : SelectRows(C) \/ SelectFails(C)
        \/ SelectCount \/ CountFails \/ EndOfList \/ NextPage \/ AskAgain \/ Others
  BY DEF ListingNext
<1> QED  BY <1>1, <1>2, <1>3, <1>4 DEF PagingNext

(* A list asked for with a query string keeps every promise of Paging, which  *)
(* leaves open what the clause selects: FromUrlParams, Where and Build make   *)
(* one that selects what the filters are true of, in every order of the maps  *)
(* and for every page.                                                      *)
THEOREM ListingKeepsPromises == ListingSpec => KeepsPromises
<1>1. ListingInit => StageInv /\ PagingInit
  BY DEF ListingInit, PagingInit, StageInv
<1>2. QueryInv /\ StageInv /\ [ListingNext]_allVars => StageInv'
  BY StageNext
<1>3. QueryInv /\ StageInv /\ [ListingNext]_allVars => [PagingNext]_<<searchVars, pagingVars>>
  BY ListingStep
<1> QED  BY <1>1, <1>2, <1>3, QueryInvHolds, PTL DEF ListingSpec, KeepsPromises, PagingSpec

(* So what is proved of Paging holds of lists with the clause the code makes.  *)
THEOREM ListsAreCovered == ListingSpec => [](UrlFiltersKept /\ PagesCoverList /\ TotalMatchesPage)
  BY ListingKeepsPromises, UrlFiltersKeptHolds, PagesCoverListHolds, TotalMatchesPageHolds, PTL
     DEF KeepsPromises

=============================================================================
