----------------------------- MODULE TreeProofs -----------------------------
(***************************************************************************)
(* The links and the levels of the forest for any identifiers, any list of   *)
(* data and any number of calls: first what setLevel visits and leaves, then  *)
(* that it orders the levels, then that every call keeps the invariant.       *)
(***************************************************************************)
EXTENDS Tree, FiniteSetTheorems, WellFoundedInduction, TLAPS

(* Anchor and Nil are no identifiers.                                       *)
LEMMA Names == Anchor \notin Ids /\ Nil \notin Ids /\ Nil # Anchor /\ Ids \subseteq Nodes
  BY IdsAssumption DEF Nodes

(* There are finitely many nodes, and at least Anchor.                      *)
LEMMA NodesFinite == IsFiniteSet(Nodes) /\ Cardinality(Nodes) \in Nat \ {0}
<1>1. IsFiniteSet({Anchor}) /\ IsFiniteSet(Ids)
  BY FS_Singleton, IdsAssumption
<1>2. IsFiniteSet(Nodes)
  BY <1>1, FS_Union DEF Nodes
<1>3. Nodes # {}
  BY DEF Nodes
<1> QED  BY <1>2, <1>3, FS_CardinalityType, FS_EmptySet

-----------------------------------------------------------------------------
(* Induction.                                                               *)

Less == {p \in Nat \X Nat : p[1] < p[2]}

(* A set of numbers has a least one: numbers are well-founded.               *)
LEMMA LeastNumber ==
  ASSUME NEW T \in SUBSET Nat, T # {}
  PROVE  \E n \in T : \A m \in T : n <= m
<1>1. Less = OpToRel(<, Nat)
  BY Zenon DEF OpToRel, Less
<1>2. IsWellFoundedOn(Less, Nat)
  BY <1>1, NatLessThanWellFounded, Zenon
<1>3. PICK n \in T : \A m \in T : ~ (<<m, n>> \in Less)
  BY <1>2, WFMin
<1>4. \A m \in T : ~(m < n)
  BY <1>3 DEF Less
<1>5. n \in Nat /\ T \subseteq Nat
  OBVIOUS
<1> QED  BY <1>4, <1>5

(* What holds of 0, and of d + 1 if of all up to d, holds up to N.            *)
LEMMA CountUp ==
  ASSUME NEW N \in Nat, NEW T, 0 \in T,
         \A d \in 1 .. N : (\A e \in 0 .. d - 1 : e \in T) => d \in T
  PROVE  0 .. N \subseteq T
<1> DEFINE X == (0 .. N) \ T
<1> SUFFICES ASSUME X # {} PROVE FALSE
  OBVIOUS
<1>1. X \in SUBSET Nat
  OBVIOUS
<1>2. PICK n \in X : \A m \in X : n <= m
  BY <1>1, LeastNumber
<1>3. n \in 1 .. N
  OBVIOUS
<1>4. \A e \in 0 .. n - 1 : e \in T
  BY <1>2, <1>3
<1> QED  BY <1>3, <1>4

(* A function may be defined by what it does from one number to the next.     *)
Steps(f, s, next, n) == f[0] = s /\ \A d \in 1 .. n : f[d] = next[d][f[d - 1]]

LEMMA StepByStep ==
  ASSUME NEW N \in Nat, NEW U, NEW s \in U, NEW next \in [1 .. N -> [U -> U]]
  PROVE  \E f \in [0 .. N -> U] : Steps(f, s, next, N)
<1> DEFINE T == {n \in 0 .. N : \E f \in [0 .. N -> U] : Steps(f, s, next, n)}
<1>1. 0 \in T
  <2>1. [d \in 0 .. N |-> s] \in [0 .. N -> U] /\ Steps([d \in 0 .. N |-> s], s, next, 0)
    BY DEF Steps
  <2>2. \E f \in [0 .. N -> U] : Steps(f, s, next, 0)
    BY <2>1, Zenon
  <2> QED  BY <2>2
<1>2. ASSUME NEW n \in 1 .. N, \A e \in 0 .. n - 1 : e \in T
      PROVE  n \in T
  <2>1. n - 1 \in T
    BY <1>2
  <2>2. PICK f \in [0 .. N -> U] : Steps(f, s, next, n - 1)
    BY <2>1
  <2> DEFINE g == [f EXCEPT ![n] = next[n][f[n - 1]]]
  <2>3. g \in [0 .. N -> U]
    OBVIOUS
  <2>4. Steps(g, s, next, n)
    BY <2>2 DEF Steps
  <2> HIDE DEF g
  <2>5. \E k \in [0 .. N -> U] : Steps(k, s, next, n)
    BY <2>3, <2>4, Zenon
  <2>6. n \in 0 .. N
    OBVIOUS
  <2> QED  BY <2>5, <2>6
<1> HIDE DEF T
<1>3. 0 .. N \subseteq T
  BY <1>1, <1>2, CountUp
<1> QED  BY <1>3 DEF T

-----------------------------------------------------------------------------
(* What TypeOK says of the heap.                                            *)
Heaps ==
    [index : SUBSET Ids, made : SUBSET Ids, bare : SUBSET Ids,
     ghosts : SUBSET Ids, children : [Nodes -> SUBSET Ids],
     parent : [Ids -> Nodes \cup {Nil}], pid : [Ids -> Ids \cup {Nil}],
     level : [Nodes -> Int]]

(* The visits of setLevel up to depth d, made of those up to d - 1.          *)
MoreVisits(h, S, l, visits, d) ==
    IF d = 0 THEN S \X {0}
    ELSE LET seen     == visits[d - 1]
             children == UNION {h.children[m] : m \in {m \in Nodes : <<m, d - 1>> \in seen}}
             again    == {c \in children : \E e \in 0 .. d - 1 : <<c, e>> \in seen}
         IN  seen \cup ({c \in children : h.level[c] # l + d} \cup again) \X {d}

AllVisits(h, S, l, visits) ==
    visits = [d \in 0 .. Cardinality(Nodes) |-> MoreVisits(h, S, l, visits, d)]

(* Children of nodes.                                                       *)
ChildrenOf(h, T) == UNION {h.children[m] : m \in T}

(* C[d] are the nodes visited at depth d.                                    *)
Rounds(h, S, l, C) ==
    /\ C \in [0 .. Cardinality(Nodes) -> SUBSET Nodes]
    /\ C[0] = S
    /\ \A d \in 1 .. Cardinality(Nodes) :
          C[d] = {c \in ChildrenOf(h, C[d - 1]) :
                     h.level[c] # l + d \/ \E e \in 0 .. d - 1 : c \in C[e]}

(* Children are identifiers.                                                *)
LEMMA ChildrenTypes ==
  ASSUME NEW h \in Heaps
  PROVE  \A m \in Nodes : h.children[m] \subseteq Ids
  BY DEF Heaps

(* Such a function exists: each depth follows from the one before.          *)
LEMMA VisitsExist ==
  ASSUME NEW h \in Heaps, NEW S \in SUBSET Nodes, NEW l \in Int
  PROVE  \E visits : AllVisits(h, S, l, visits)
<1> DEFINE N == Cardinality(Nodes)
           U == SUBSET (Nodes \X (0 .. N))
           Next1(d, seen) ==
             LET children == UNION {h.children[m] : m \in {m \in Nodes : <<m, d - 1>> \in seen}}
                 again    == {c \in children : \E e \in 0 .. d - 1 : <<c, e>> \in seen}
             IN  seen \cup ({c \in children : h.level[c] # l + d} \cup again) \X {d}
           next == [d \in 1 .. N |-> [seen \in U |-> Next1(d, seen)]]
           s == S \X {0}
<1>1. N \in Nat
  BY NodesFinite
<1>2. s \in U
  BY <1>1
<1>3. ASSUME NEW d \in 1 .. N, NEW seen \in U
      PROVE  Next1(d, seen) \in U
  <2> DEFINE children == UNION {h.children[m] : m \in {m \in Nodes : <<m, d - 1>> \in seen}}
             again    == {c \in children : \E e \in 0 .. d - 1 : <<c, e>> \in seen}
             new      == {c \in children : h.level[c] # l + d} \cup again
  <2>1. children \subseteq Nodes
    <3>1. \A m \in Nodes : h.children[m] \subseteq Nodes
      BY ChildrenTypes, Names
    <3> QED  BY <3>1
  <2>2. new \subseteq Nodes
    BY <2>1
  <2>3. Next1(d, seen) = seen \cup new \X {d}
    OBVIOUS
  <2> HIDE DEF new, Next1
  <2>4. d \in 0 .. N
    BY <1>1
  <2>5. new \X {d} \subseteq Nodes \X (0 .. N)
    BY <2>2, <2>4
  <2> QED  BY <2>3, <2>5
<1> HIDE DEF Next1, s
<1>4. next \in [1 .. N -> [U -> U]]
  BY <1>3
<1> HIDE DEF U, next
<1>5. PICK f \in [0 .. N -> U] : Steps(f, s, next, N)
  BY <1>1, <1>2, <1>4, StepByStep
<1>6. \A d \in 0 .. N : f[d] = MoreVisits(h, S, l, f, d)
  <2> SUFFICES ASSUME NEW d \in 0 .. N PROVE f[d] = MoreVisits(h, S, l, f, d)
    OBVIOUS
  <2>1. CASE d = 0
    BY <1>5, <2>1 DEF Steps, MoreVisits, s
  <2>2. CASE d # 0
    <3>1. d \in 1 .. N /\ d - 1 \in 0 .. N
      BY <1>1, <2>2
    <3>2. f[d - 1] \in U
      BY <3>1
    <3>3. f[d] = next[d][f[d - 1]]
      BY <1>5, <3>1 DEF Steps
    <3>4. f[d] = Next1(d, f[d - 1])
      BY <3>1, <3>2, <3>3 DEF next
    <3> QED  BY <3>4, <2>2, Zenon DEF Next1, MoreVisits
  <2> QED  BY <2>1, <2>2
<1>7. f = [d \in 0 .. N |-> f[d]]
  OBVIOUS
<1>8. AllVisits(h, S, l, f)
  BY <1>6, <1>7, Zenon DEF AllVisits
<1> QED  BY <1>8

(* So Visits is its value at the last depth.                                *)
LEMMA VisitsSolved ==
  ASSUME NEW h \in Heaps, NEW S \in SUBSET Nodes, NEW l \in Int
  PROVE  \E visits : AllVisits(h, S, l, visits)
                       /\ Visits(h, S, l) = visits[Cardinality(Nodes)]
<1> DEFINE visits == CHOOSE visits : AllVisits(h, S, l, visits)
<1>1. AllVisits(h, S, l, visits)
  BY VisitsExist
<1>2. Visits(h, S, l) = visits[Cardinality(Nodes)]
  BY Zenon DEF Visits, AllVisits, MoreVisits
<1> QED  BY <1>1, <1>2

(* The visits, depth by depth.                                              *)
LEMMA VisitsInRounds ==
  ASSUME NEW h \in Heaps, NEW S \in SUBSET Nodes, NEW l \in Int
  PROVE  \E C : /\ Rounds(h, S, l, C)
                /\ \A m \in Nodes, d \in 0 .. Cardinality(Nodes) :
                      <<m, d>> \in Visits(h, S, l) <=> m \in C[d]
<1> DEFINE N == Cardinality(Nodes)
<1>0. N \in Nat
  BY NodesFinite
<1>1. PICK v : AllVisits(h, S, l, v) /\ Visits(h, S, l) = v[N]
  BY VisitsSolved
<1> DEFINE C == [d \in 0 .. N |-> {m \in Nodes : <<m, d>> \in v[d]}]
           Upto(d) == \A m, e : <<m, e>> \in v[d]
                                  <=> e \in 0 .. d /\ m \in Nodes /\ m \in C[e]
           New(d) == {c \in ChildrenOf(h, C[d - 1]) :
                         h.level[c] # l + d \/ \E e \in 0 .. d - 1 : c \in C[e]}
           T == {d \in 0 .. N : Upto(d)}
<1>2. v[0] = S \X {0}
  BY <1>0, <1>1 DEF AllVisits, MoreVisits
<1> HIDE DEF N
<1>3. Upto(0) /\ C[0] = S
  BY <1>0, <1>2
<1>4. ASSUME NEW d \in 1 .. N, Upto(d - 1)
      PROVE  Upto(d) /\ C[d] = New(d)
  <2> DEFINE seen     == v[d - 1]
             children == UNION {h.children[m] : m \in {m \in Nodes : <<m, d - 1>> \in seen}}
             again    == {c \in children : \E e \in 0 .. d - 1 : <<c, e>> \in seen}
             new      == {c \in children : h.level[c] # l + d} \cup again
  <2>0. d \in 0 .. N /\ d - 1 \in 0 .. N /\ d # 0
    BY <1>0
  <2>1. v[d] = seen \cup new \X {d}
    <3>1. v[d] = MoreVisits(h, S, l, v, d)
      BY <1>1, <2>0 DEF AllVisits, N
    <3> QED  BY <3>1, <2>0, Zenon DEF MoreVisits
  <2>2. C[d - 1] = {m \in Nodes : <<m, d - 1>> \in seen}
    BY <2>0
  <2>3. children = ChildrenOf(h, C[d - 1])
    BY <2>2 DEF ChildrenOf
  <2>4. children \subseteq Nodes
    <3>1. \A m \in Nodes : h.children[m] \subseteq Nodes
      BY ChildrenTypes, Names
    <3> QED  BY <3>1
  <2> HIDE DEF children, C
  <2>5. \A c \in children : (\E e \in 0 .. d - 1 : <<c, e>> \in seen)
                              <=> \E e \in 0 .. d - 1 : c \in C[e]
    BY <1>4, <2>4
  <2>6. new = New(d)
    BY <2>3, <2>5
  <2>7. new \subseteq Nodes
    BY <2>4
  <2> HIDE DEF new, New
  <2>8. \A m : <<m, d>> \notin seen
    BY <1>4
  <2>9. \A m : <<m, d>> \in v[d] <=> m \in new
    BY <2>1, <2>8
  <2>10. C[d] = new
    BY <2>0, <2>7, <2>9 DEF C
  <2>11. Upto(d)
    <3> SUFFICES ASSUME NEW m, NEW e
                 PROVE  <<m, e>> \in v[d] <=> e \in 0 .. d /\ m \in Nodes /\ m \in C[e]
      OBVIOUS
    <3>1. <<m, e>> \in v[d] <=> <<m, e>> \in seen \/ (m \in new /\ e = d)
      BY <2>1
    <3>2. <<m, e>> \in seen <=> e \in 0 .. d - 1 /\ m \in Nodes /\ m \in C[e]
      BY <1>4
    <3> QED  BY <3>1, <3>2, <2>7, <2>10, <1>0
  <2> QED  BY <2>6, <2>10, <2>11
<1> HIDE DEF Upto, New
<1>5. 0 .. N \subseteq T
  <2>1. 0 \in T
    BY <1>0, <1>3
  <2>2. ASSUME NEW d \in 1 .. N, \A e \in 0 .. d - 1 : e \in T
        PROVE  d \in T
    <3>1. d - 1 \in 0 .. d - 1 /\ d \in 0 .. N
      BY <1>0
    <3>2. Upto(d - 1)
      BY <2>2, <3>1
    <3>3. Upto(d)
      BY <1>4, <3>2
    <3> QED  BY <3>1, <3>3
  <2> HIDE DEF T
  <2> QED  BY <1>0, <2>1, <2>2, CountUp
<1>6. \A d \in 1 .. N : C[d] = New(d)
  BY <1>0, <1>4, <1>5
<1>7. Rounds(h, S, l, C)
  <2>1. C \in [0 .. N -> SUBSET Nodes]
    OBVIOUS
  <2> HIDE DEF C
  <2> QED  BY <2>1, <1>3, <1>6 DEF Rounds, New, N
<1>8. \A m \in Nodes, d \in 0 .. N : <<m, d>> \in v[N] <=> m \in C[d]
  <2>1. Upto(N)
    BY <1>0, <1>5
  <2> HIDE DEF C
  <2> QED  BY <2>1 DEF Upto
<1> HIDE DEF C
<1> QED  BY <1>1, <1>7, <1>8 DEF N

-----------------------------------------------------------------------------
(* What setLevel leaves: level[m] is that of one of the visits of m.          *)
Relevels(h, S, l, C, k) ==
    LET N == Cardinality(Nodes)
    IN  /\ Rounds(h, S, l, C)
        /\ k \in Heaps
        /\ k.index = h.index /\ k.made = h.made /\ k.bare = h.bare /\ k.ghosts = h.ghosts
        /\ k.children = h.children /\ k.parent = h.parent
        /\ \A m \in Nodes :
              \/ k.level[m] = h.level[m] /\ \A d \in 0 .. N : m \notin C[d]
              \/ k.level[m] = Overflow /\ m \in C[N]
              \/ m \notin C[N] /\ \E d \in 0 .. N : m \in C[d] /\ k.level[m] = l + d

(* setLevel leaves every node unvisited at its level, or at that of one visit. *)
LEMMA SetLevelRelevels ==
  ASSUME NEW h \in Heaps, NEW S \in SUBSET Nodes, NEW l \in Int
  PROVE  \E C : Relevels(h, S, l, C, SetLevel(h, S, l))
<1> DEFINE N == Cardinality(Nodes)
           visits    == Visits(h, S, l)
           Depths(m) == {d \in 0 .. N : <<m, d>> \in visits}
           New(m) == CASE Depths(m) = {} -> h.level[m]
                       [] N \in Depths(m) -> Overflow
                       [] OTHER -> l + CHOOSE d \in Depths(m) : TRUE
           level == [m \in Nodes |-> New(m)]
           k == [h EXCEPT !.level = level]
<1>0. N \in Nat
  BY NodesFinite
<1>1. SetLevel(h, S, l) = k
  BY DEF SetLevel
<1>2. PICK C : /\ Rounds(h, S, l, C)
               /\ \A m \in Nodes, d \in 0 .. N : <<m, d>> \in visits <=> m \in C[d]
  BY VisitsInRounds
<1> HIDE DEF visits, N
<1>3. ASSUME NEW m \in Nodes
      PROVE  /\ New(m) \in Int
             /\ \/ New(m) = h.level[m] /\ \A d \in 0 .. N : m \notin C[d]
                \/ New(m) = Overflow /\ m \in C[N]
                \/ m \notin C[N] /\ \E d \in 0 .. N : m \in C[d] /\ New(m) = l + d
  <2>0. \A d \in 0 .. N : d \in Depths(m) <=> m \in C[d]
    BY <1>2
  <2>a. \A d \in Depths(m) : d \in 0 .. N
    OBVIOUS
  <2>1. CASE Depths(m) = {}
    <3>1. New(m) = h.level[m]
      BY <2>1
    <3>2. \A d \in 0 .. N : m \notin C[d]
      BY <2>0, <2>1
    <3> HIDE DEF New
    <3> QED  BY <3>1, <3>2 DEF Heaps
  <2>2. CASE Depths(m) # {} /\ N \in Depths(m)
    <3>1. New(m) = Overflow
      BY <2>2
    <3>2. m \in C[N]
      BY <2>0, <2>2, <1>0
    <3> HIDE DEF New
    <3> QED  BY <3>1, <3>2 DEF Overflow, RootLevel
  <2>3. CASE Depths(m) # {} /\ N \notin Depths(m)
    <3>1. New(m) = l + CHOOSE d \in Depths(m) : TRUE
      BY <2>3
    <3>2. (CHOOSE d \in Depths(m) : TRUE) \in Depths(m)
      BY <2>3
    <3> DEFINE e == CHOOSE d \in Depths(m) : TRUE
    <3> HIDE DEF New, e, Depths
    <3>3. e \in 0 .. N /\ m \in C[e] /\ New(m) = l + e
      BY <2>0, <2>a, <3>1, <3>2 DEF e
    <3>4. m \notin C[N]
      BY <2>0, <2>3, <1>0
    <3> QED  BY <3>3, <3>4
  <2> QED  BY <2>1, <2>2, <2>3
<1> HIDE DEF New
<1>4. level \in [Nodes -> Int]
  BY <1>3
<1>5. \A m \in Nodes : level[m] = New(m)
  OBVIOUS
<1> HIDE DEF level
<1>6. /\ k \in Heaps
      /\ k.index = h.index /\ k.made = h.made /\ k.bare = h.bare /\ k.ghosts = h.ghosts
      /\ k.children = h.children /\ k.parent = h.parent /\ k.level = level
  BY <1>4 DEF Heaps
<1> HIDE DEF k
<1>7. Relevels(h, S, l, C, k)
  BY <1>2, <1>3, <1>5, <1>6 DEF Relevels, N
<1> QED  BY <1>1, <1>7

-----------------------------------------------------------------------------
(* Nodes at or below others.                                                *)

(* The closure holds what it starts with and is closed under children.      *)
LEMMA ClosureHolds ==
  ASSUME NEW h, NEW S \in SUBSET Nodes
  PROVE  /\ S \subseteq Closure(h, S)
         /\ \A n \in Closure(h, S) : h.children[n] \cap Nodes \subseteq Closure(h, S)
         /\ Closure(h, S) \subseteq Nodes
  BY DEF Closure

(* It is within every set that is.                                          *)
LEMMA ClosureLeast ==
  ASSUME NEW h, NEW S, NEW T \in SUBSET Nodes, S \subseteq T,
         \A n \in T : h.children[n] \subseteq T
  PROVE  Closure(h, S) \subseteq T
  BY DEF Closure

-----------------------------------------------------------------------------
(* A node with two parents may keep either's level, as may what is below it.  *)
Torn(h, s) == \E p, q \in Ids : p # q /\ s \in h.children[p] /\ s \in h.children[q]

Excused(h, n) == \E s \in Ids : Torn(h, s) /\ n \in Below(h, s)

(* A torn node is below itself.                                             *)
LEMMA TornIsExcused ==
  ASSUME NEW h, NEW n \in Ids, Torn(h, n)
  PROVE  Excused(h, n)
<1>1. {n} \in SUBSET Nodes
  BY Names
<1>2. n \in Below(h, n)
  BY <1>1, ClosureHolds DEF Below
<1> QED  BY <1>2 DEF Excused

(* The children of an excused node are excused.                             *)
LEMMA ExcusedBelow ==
  ASSUME NEW h \in Heaps, NEW n, Excused(h, n), NEW c \in h.children[n]
  PROVE  Excused(h, c)
<1>1. PICK s \in Ids : Torn(h, s) /\ n \in Below(h, s)
  BY DEF Excused
<1>2. {s} \in SUBSET Nodes
  BY Names
<1>3. Below(h, s) \subseteq Nodes /\ h.children[n] \cap Nodes \subseteq Below(h, s)
  BY <1>1, <1>2, ClosureHolds DEF Below
<1>4. h.children[n] \subseteq Nodes
  BY <1>1, <1>3, ChildrenTypes, Names
<1> QED  BY <1>1, <1>3, <1>4 DEF Excused

-----------------------------------------------------------------------------
(* The depths of setLevel's visits.                                         *)

(* A node is visited after the first round as a child of one that was.        *)
LEMMA VisitedByParent ==
  ASSUME NEW h \in Heaps, NEW S \in SUBSET Ids, NEW l \in Int, NEW C, Rounds(h, S, l, C),
         NEW d \in 1 .. Cardinality(Nodes), NEW m \in C[d]
  PROVE  \E p \in C[d - 1] : m \in h.children[p]
  BY DEF Rounds, ChildrenOf

(* setLevel on nodes of Ids visits nodes of Ids only.                       *)
LEMMA RoundsInIds ==
  ASSUME NEW h \in Heaps, NEW S \in SUBSET Ids, NEW l \in Int, NEW C, Rounds(h, S, l, C)
  PROVE  \A d \in 0 .. Cardinality(Nodes) : C[d] \subseteq Ids
<1> SUFFICES ASSUME NEW d \in 0 .. Cardinality(Nodes), NEW m \in C[d] PROVE m \in Ids
  OBVIOUS
<1>1. CASE d = 0
  BY <1>1 DEF Rounds
<1>2. CASE d # 0
  <2>1. d \in 1 .. Cardinality(Nodes) /\ d - 1 \in 0 .. Cardinality(Nodes)
    BY <1>2, NodesFinite
  <2>2. PICK p \in C[d - 1] : m \in h.children[p]
    BY <2>1, VisitedByParent
  <2>3. p \in Nodes
    BY <2>1 DEF Rounds
  <2> QED  BY <2>2, <2>3, ChildrenTypes
<1> QED  BY <1>1, <1>2

(* Rounds stop for good.                                                    *)
LEMMA RoundsBefore ==
  ASSUME NEW h \in Heaps, NEW S \in SUBSET Ids, NEW l \in Int, NEW C, Rounds(h, S, l, C),
         NEW d \in 0 .. Cardinality(Nodes), C[d] # {}
  PROVE  \A e \in 0 .. d : C[e] # {}
<1> DEFINE T == {j \in 0 .. d : C[d - j] # {}}
<1>0. Cardinality(Nodes) \in Nat
  BY NodesFinite
<1>1. 0 \in T
  OBVIOUS
<1>2. ASSUME NEW j \in 1 .. d, \A e \in 0 .. j - 1 : e \in T
      PROVE  j \in T
  <2>1. C[d - (j - 1)] # {}
    BY <1>2
  <2>2. d - (j - 1) \in 1 .. Cardinality(Nodes) /\ (d - (j - 1)) - 1 = d - j
    BY <1>0
  <2>3. C[d - j] # {}
    BY <2>1, <2>2, VisitedByParent
  <2> QED  BY <2>3
<1>3. 0 .. d \subseteq T
  <2>1. d \in Nat
    OBVIOUS
  <2> HIDE DEF T
  <2> QED  BY <1>1, <1>2, <2>1, CountUp
<1> SUFFICES ASSUME NEW e \in 0 .. d PROVE C[e] # {}
  OBVIOUS
<1>4. d - e \in T /\ d - (d - e) = e
  BY <1>3
<1> QED  BY <1>4

(* When setLevel gets back to where it began it never ends.                  *)
LEMMA BackOverflows ==
  ASSUME NEW h \in Heaps, NEW x \in Ids, NEW l \in Int, NEW C, Rounds(h, {x}, l, C),
         NEW b \in 0 .. Cardinality(Nodes), NEW m \in C[b], x \in h.children[m]
  PROVE  C[Cardinality(Nodes)] # {}
<1> DEFINE N == Cardinality(Nodes)
<1>0. N \in Nat /\ {x} \in SUBSET Ids
  BY NodesFinite
<1> HIDE DEF N
<1>r. /\ C[0] = {x}
      /\ \A d \in 1 .. N : C[d] = {c \in ChildrenOf(h, C[d - 1]) :
                                      h.level[c] # l + d \/ \E e \in 0 .. d - 1 : c \in C[e]}
  BY DEF Rounds, N
<1>1. CASE b = N
  BY <1>1 DEF N
<1>2. CASE b # N
  <2> DEFINE E == b + 1
             T == {d \in 0 .. N : d + E <= N => C[d] \subseteq C[d + E]}
             F == {d \in 0 .. N : C[d] # {}}
  <2>0. E \in 1 .. N /\ E - 1 = b
    BY <1>0, <1>2 DEF N
  <2>1. 0 \in T
    <3>1. x \in ChildrenOf(h, C[E - 1])
      BY <2>0 DEF ChildrenOf
    <3>2. 0 \in 0 .. E - 1 /\ x \in C[0]
      BY <1>r, <2>0
    <3>3. x \in C[E]
      BY <1>r, <2>0, <3>1, <3>2
    <3> QED  BY <1>0, <1>r, <3>3
  <2>2. ASSUME NEW d \in 1 .. N, \A e \in 0 .. d - 1 : e \in T
        PROVE  d \in T
    <3> SUFFICES ASSUME d + E <= N, NEW c \in C[d] PROVE c \in C[d + E]
      OBVIOUS
    <3>0. d - 1 \in 0 .. d - 1 /\ (d - 1) + E = (d + E) - 1 /\ (d - 1) + E <= N
      BY <1>0, <2>0
    <3>1. d - 1 \in T
      BY <2>2, <3>0
    <3>2. C[d - 1] \subseteq C[(d + E) - 1]
      BY <3>0, <3>1
    <3>3. c \in ChildrenOf(h, C[d - 1])
      BY <1>r
    <3>4. c \in ChildrenOf(h, C[(d + E) - 1])
      BY <3>2, <3>3 DEF ChildrenOf
    <3> DEFINE D == d + E
    <3>5. D \in 1 .. N /\ d \in 0 .. D - 1
      BY <2>0, <1>0
    <3> HIDE DEF E, D
    <3>6. C[D] = {a \in ChildrenOf(h, C[D - 1]) :
                     h.level[a] # l + D \/ \E e \in 0 .. D - 1 : a \in C[e]}
      BY <1>r, <3>5
    <3>7. c \in C[D]
      BY <3>4, <3>5, <3>6 DEF D
    <3> QED  BY <3>7 DEF D
  <2>3. 0 .. N \subseteq T
    <3> HIDE DEF T
    <3> QED  BY <1>0, <2>1, <2>2, CountUp
  <2>4. C[E] # {}
    <3>1. 0 \in T /\ 0 + E <= N
      BY <1>0, <2>0, <2>3
    <3> QED  BY <3>1, <1>r, <2>0
  <2>5. ASSUME NEW d \in 1 .. N, \A e \in 0 .. d - 1 : e \in F
        PROVE  d \in F
    <3>1. CASE d <= E
      <4>1. E \in 0 .. Cardinality(Nodes) /\ d \in 0 .. E
        BY <3>1, <2>0 DEF N
      <4> HIDE DEF E
      <4>2. C[d] # {}
        BY <1>0, <2>4, <4>1, RoundsBefore
      <4> QED  BY <4>2
    <3>2. CASE d > E
      <4>1. d - E \in 0 .. d - 1 /\ d - E \in 0 .. N /\ (d - E) + E = d
        BY <3>2, <2>0, <1>0
      <4>2. d - E \in T /\ d - E \in F
        BY <2>3, <2>5, <4>1
      <4>3. C[d - E] # {} /\ C[d - E] \subseteq C[d]
        BY <4>1, <4>2
      <4> QED  BY <4>3
    <3> QED  BY <3>1, <3>2, <2>0
  <2>6. 0 .. N \subseteq F
    <3>1. 0 \in F
      <4>1. 0 \in 0 .. N /\ C[0] # {}
        BY <1>0, <1>r
      <4> QED  BY <4>1
    <3> HIDE DEF F
    <3> QED  BY <1>0, <2>5, <3>1, CountUp
  <2> QED  BY <1>0, <2>6 DEF N
<1> QED  BY <1>1, <1>2

-----------------------------------------------------------------------------
(* No node is visited that has one of S for a child.                         *)
NoWayBack(h, S, C) ==
    \A d \in 0 .. Cardinality(Nodes) : \A b \in C[d] : h.children[b] \cap S = {}

(* The visits come to an end.                                               *)
Ends(C) == C[Cardinality(Nodes)] = {}

Visited(C, m) == \E d \in 0 .. Cardinality(Nodes) : m \in C[d]

(* A node that is not excused is visited once.                               *)
LEMMA OneDepth ==
  ASSUME NEW h \in Heaps, NEW S \in SUBSET Ids, NEW l \in Int, NEW C, Rounds(h, S, l, C),
         NoWayBack(h, S, C), NEW m \in Ids, ~Excused(h, m),
         NEW d \in 0 .. Cardinality(Nodes), NEW e \in 0 .. Cardinality(Nodes),
         m \in C[d], m \in C[e]
  PROVE  d = e
<1> DEFINE N == Cardinality(Nodes)
           T == {i \in 0 .. N : \A j \in 0 .. N : \A n \in Ids :
                    n \in C[i] /\ n \in C[j] /\ i < j => Excused(h, n)}
<1>0. N \in Nat
  BY NodesFinite
<1>r. C[0] = S
  BY DEF Rounds
<1>1. \A j \in 1 .. N : \A n \in C[j] : j - 1 \in 0 .. N /\ \E p \in C[j - 1] : p \in Ids /\ n \in h.children[p]
  <2> SUFFICES ASSUME NEW j \in 1 .. N, NEW n \in C[j]
               PROVE  j - 1 \in 0 .. N /\ \E p \in C[j - 1] : p \in Ids /\ n \in h.children[p]
    OBVIOUS
  <2>1. PICK p \in C[j - 1] : n \in h.children[p]
    BY VisitedByParent
  <2>2. j - 1 \in 0 .. N
    BY <1>0
  <2>3. p \in Ids
    BY <2>2, RoundsInIds
  <2> QED  BY <2>1, <2>2, <2>3
<1> HIDE DEF N
<1>2. 0 \in T
  <2> SUFFICES ASSUME NEW j \in 0 .. N, NEW n \in Ids, n \in C[0], n \in C[j], 0 < j
               PROVE  FALSE
    BY <1>0
  <2>1. j \in 1 .. N
    BY <1>0
  <2>2. PICK p \in C[j - 1] : n \in h.children[p]
    BY <1>1, <2>1
  <2>3. j - 1 \in 0 .. N
    BY <1>1, <2>1
  <2>4. h.children[p] \cap S = {}
    BY <2>3, <2>2 DEF NoWayBack, N
  <2> QED  BY <2>2, <2>4, <1>r
<1>3. ASSUME NEW i \in 1 .. N, \A a \in 0 .. i - 1 : a \in T
      PROVE  i \in T
  <2> SUFFICES ASSUME NEW j \in 0 .. N, NEW n \in Ids, n \in C[i], n \in C[j], i < j
               PROVE  Excused(h, n)
    BY <1>0
  <2>1. j \in 1 .. N /\ i - 1 \in 0 .. i - 1 /\ i - 1 < j - 1
    BY <1>0
  <2>2. PICK p \in C[i - 1] : p \in Ids /\ n \in h.children[p]
    BY <1>1
  <2>3. PICK q \in C[j - 1] : q \in Ids /\ n \in h.children[q]
    BY <1>1, <2>1
  <2>4. CASE p = q
    <3>1. i - 1 \in T
      BY <1>3, <2>1
    <3>2. j - 1 \in 0 .. N
      BY <1>1, <2>1
    <3>3. Excused(h, p)
      BY <3>1, <3>2, <2>1, <2>2, <2>3, <2>4
    <3> QED  BY <3>3, <2>2, ExcusedBelow
  <2>5. CASE p # q
    <3>1. Torn(h, n)
      BY <2>2, <2>3, <2>5 DEF Torn
    <3> QED  BY <3>1, TornIsExcused
  <2> QED  BY <2>4, <2>5
<1>4. 0 .. N \subseteq T
  <2> HIDE DEF T
  <2> QED  BY <1>0, <1>2, <1>3, CountUp
<1>5. d \in T /\ e \in T /\ d \in Int /\ e \in Int
  BY <1>4, <1>0 DEF N
<1> QED  BY <1>5 DEF N

(* p's children that are not excused are one level below it.                 *)
OneBelow(h, k, p) ==
    \A n \in h.children[p] : ~Excused(h, n) => k.level[n] = k.level[p] + 1

(* A visited node's children end one level below it, if not excused.        *)
LEMMA ChildOneBelow ==
  ASSUME NEW h \in Heaps, NEW S \in SUBSET Ids, NEW l \in Int, NEW C, NEW k,
         Relevels(h, S, l, C, k), NoWayBack(h, S, C), Ends(C),
         NEW p, Visited(C, p)
  PROVE  OneBelow(h, k, p)
<1> SUFFICES ASSUME NEW n \in h.children[p], ~Excused(h, n)
             PROVE  k.level[n] = k.level[p] + 1
  BY DEF OneBelow
<1> DEFINE N == Cardinality(Nodes)
<1>0. N \in Nat /\ Rounds(h, S, l, C) /\ C[N] = {}
  BY NodesFinite DEF Relevels, Ends
<1>1. PICK d \in 0 .. N : p \in C[d]
  BY DEF Visited
<1>2. p \in Ids /\ p \in Nodes
  BY <1>0, <1>1, RoundsInIds, Names
<1>3. n \in Ids /\ n \in Nodes
  BY <1>2, ChildrenTypes, Names
<1>4. ~Excused(h, p)
  BY ExcusedBelow
<1>5. \A e \in 0 .. N : p \in C[e] => e = d
  BY <1>0, <1>1, <1>2, <1>4, OneDepth
<1>6. k.level[p] = l + d
  <2>1. \/ k.level[p] = h.level[p] /\ \A e \in 0 .. N : p \notin C[e]
        \/ k.level[p] = Overflow /\ p \in C[N]
        \/ p \notin C[N] /\ \E e \in 0 .. N : p \in C[e] /\ k.level[p] = l + e
    BY <1>2 DEF Relevels
  <2> HIDE DEF N
  <2> QED  BY <2>1, <1>0, <1>1, <1>5
<1>7. \A e \in 1 .. N : n \in C[e] => e = d + 1
  <2> SUFFICES ASSUME NEW e \in 1 .. N, n \in C[e] PROVE e = d + 1
    OBVIOUS
  <2>1. PICK q \in C[e - 1] : n \in h.children[q]
    BY <1>0, VisitedByParent
  <2>2. e - 1 \in 0 .. N
    BY <1>0
  <2>3. q \in Ids
    BY <1>0, <2>1, <2>2, RoundsInIds
  <2>4. q = p
    <3> SUFFICES ASSUME q # p PROVE FALSE
      OBVIOUS
    <3>1. Torn(h, n)
      BY <1>2, <2>1, <2>3 DEF Torn
    <3> QED  BY <3>1, <1>3, TornIsExcused
  <2>5. e - 1 = d
    BY <1>5, <2>1, <2>2, <2>4
  <2> QED  BY <1>0, <2>5
<1>8. n \notin C[0]
  <2>1. h.children[p] \cap S = {}
    BY <1>1 DEF NoWayBack
  <2> QED  BY <2>1, <1>0 DEF Rounds
<1>9. d # N /\ d + 1 \in 1 .. N /\ (d + 1) - 1 = d
  BY <1>0, <1>1
<1>10. \/ k.level[n] = h.level[n] /\ \A e \in 0 .. N : n \notin C[e]
       \/ k.level[n] = Overflow /\ n \in C[N]
       \/ n \notin C[N] /\ \E e \in 0 .. N : n \in C[e] /\ k.level[n] = l + e
  BY <1>3 DEF Relevels
<1>11. \A e \in 0 .. N : n \in C[e] => e = d + 1
  <2> HIDE DEF N
  <2> QED  BY <1>0, <1>7, <1>8
<1>12. CASE \A e \in 0 .. N : n \notin C[e]
  <2>1. n \in ChildrenOf(h, C[(d + 1) - 1])
    BY <1>1, <1>9 DEF ChildrenOf
  <2>2. n \notin C[d + 1]
    BY <1>9, <1>12, <1>0
  <2>3. C[d + 1] = {c \in ChildrenOf(h, C[(d + 1) - 1]) :
                       h.level[c] # l + (d + 1) \/ \E e \in 0 .. (d + 1) - 1 : c \in C[e]}
    BY <1>0, <1>9 DEF Rounds
  <2>4. h.level[n] = l + (d + 1)
    BY <2>1, <2>2, <2>3
  <2>5. k.level[n] = h.level[n]
    BY <1>0, <1>10, <1>12
  <2> QED  BY <2>4, <2>5, <1>6
<1>13. CASE \E e \in 0 .. N : n \in C[e]
  <2>1. PICK e \in 0 .. N : n \in C[e] /\ k.level[n] = l + e
    BY <1>0, <1>10, <1>13
  <2>2. e = d + 1
    BY <1>11, <2>1
  <2> QED  BY <2>1, <2>2, <1>6
<1> QED  BY <1>12, <1>13

(* A child of a node that was not visited was not visited either.           *)
LEMMA FoundByParent ==
  ASSUME NEW h \in Heaps, NEW S \in SUBSET Ids, NEW l \in Int, NEW C, NEW k,
         Relevels(h, S, l, C, k),
         NEW p \in Ids, ~Visited(C, p)
  PROVE  \A n \in h.children[p] \ S : ~Excused(h, n) => k.level[n] = h.level[n]
<1> SUFFICES ASSUME NEW n \in h.children[p] \ S, ~Excused(h, n)
             PROVE  k.level[n] = h.level[n]
  OBVIOUS
<1> DEFINE N == Cardinality(Nodes)
<1>0. N \in Nat /\ Rounds(h, S, l, C) /\ C[0] = S
  BY NodesFinite DEF Relevels, Rounds
<1>1. n \in Ids /\ n \in Nodes
  BY ChildrenTypes, Names
<1>2. ~Visited(C, n)
  <2> SUFFICES ASSUME NEW d \in 0 .. N, n \in C[d] PROVE FALSE
    BY DEF Visited
  <2>1. d \in 1 .. N /\ d - 1 \in 0 .. N
    BY <1>0
  <2>2. PICK q \in C[d - 1] : n \in h.children[q]
    BY <1>0, <2>1, VisitedByParent
  <2>3. q \in Ids /\ Visited(C, q)
    BY <1>0, <2>1, <2>2, RoundsInIds DEF Visited
  <2>4. Torn(h, n)
    BY <2>2, <2>3 DEF Torn
  <2> QED  BY <2>4, <1>1, TornIsExcused
<1>3. \/ k.level[n] = h.level[n] /\ \A e \in 0 .. N : n \notin C[e]
      \/ k.level[n] = Overflow /\ n \in C[N]
      \/ n \notin C[N] /\ \E e \in 0 .. N : n \in C[e] /\ k.level[n] = l + e
  BY <1>1 DEF Relevels
<1>4. N \in 0 .. N
  BY <1>0
<1> HIDE DEF N
<1> QED  BY <1>2, <1>3, <1>4 DEF Visited, N

(* A node that was not visited keeps its level.                             *)
LEMMA NotVisitedKeeps ==
  ASSUME NEW h \in Heaps, NEW S, NEW l \in Int, NEW C, NEW k,
         Relevels(h, S, l, C, k), NEW n \in Nodes, ~Visited(C, n)
  PROVE  k.level[n] = h.level[n]
<1> DEFINE N == Cardinality(Nodes)
<1>1. \/ k.level[n] = h.level[n] /\ \A e \in 0 .. N : n \notin C[e]
      \/ k.level[n] = Overflow /\ n \in C[N]
      \/ n \notin C[N] /\ \E e \in 0 .. N : n \in C[e] /\ k.level[n] = l + e
  BY DEF Relevels
<1>2. N \in 0 .. N
  BY NodesFinite
<1> HIDE DEF N
<1> QED  BY <1>1, <1>2 DEF Visited, N

(* The nodes setLevel begins with have the level it was given.              *)
LEMMA BeginsAtLevel ==
  ASSUME NEW h \in Heaps, NEW S \in SUBSET Ids, NEW l \in Int, NEW C, NEW k,
         Relevels(h, S, l, C, k), NoWayBack(h, S, C), Ends(C),
         NEW n \in S
  PROVE  k.level[n] = l
<1> DEFINE N == Cardinality(Nodes)
<1>0. N \in Nat /\ Rounds(h, S, l, C) /\ C[0] = S /\ C[N] = {}
  BY NodesFinite DEF Relevels, Rounds, Ends
<1>1. n \in Nodes
  BY Names
<1>2. \A d \in 0 .. N : n \in C[d] => d = 0
  <2> SUFFICES ASSUME NEW d \in 1 .. N, n \in C[d] PROVE FALSE
    BY <1>0
  <2>1. PICK q \in C[d - 1] : n \in h.children[q]
    BY <1>0, VisitedByParent
  <2>2. d - 1 \in 0 .. N
    BY <1>0
  <2>3. h.children[q] \cap S = {}
    BY <2>1, <2>2 DEF NoWayBack
  <2> QED  BY <2>1, <2>3
<1>3. \/ k.level[n] = h.level[n] /\ \A e \in 0 .. N : n \notin C[e]
      \/ k.level[n] = Overflow /\ n \in C[N]
      \/ n \notin C[N] /\ \E e \in 0 .. N : n \in C[e] /\ k.level[n] = l + e
  BY <1>1 DEF Relevels
<1>4. 0 \in 0 .. N
  BY <1>0
<1> HIDE DEF N
<1>5. PICK e \in 0 .. N : n \in C[e] /\ k.level[n] = l + e
  BY <1>0, <1>3, <1>4
<1>6. e = 0
  BY <1>2, <1>5
<1> QED  BY <1>5, <1>6

(* When setLevel ends it did not get back to where it began.                 *)
LEMMA EndsAway ==
  ASSUME NEW h \in Heaps, NEW x \in Ids, NEW l \in Int, NEW C, NEW k,
         Relevels(h, {x}, l, C, k), ~Overflowed(k)
  PROVE  NoWayBack(h, {x}, C) /\ Ends(C)
<1> DEFINE N == Cardinality(Nodes)
<1>0. N \in Nat /\ Rounds(h, {x}, l, C) /\ C \in [0 .. N -> SUBSET Nodes]
  BY NodesFinite DEF Relevels, Rounds
<1>1. C[N] = {}
  <2> SUFFICES ASSUME NEW m \in C[N] PROVE FALSE
    OBVIOUS
  <2>1. N \in 0 .. N
    BY <1>0
  <2>2. m \in Nodes
    BY <1>0, <2>1
  <2>3. \/ k.level[m] = h.level[m] /\ \A e \in 0 .. N : m \notin C[e]
        \/ k.level[m] = Overflow /\ m \in C[N]
        \/ m \notin C[N] /\ \E e \in 0 .. N : m \in C[e] /\ k.level[m] = l + e
    BY <2>2 DEF Relevels
  <2> HIDE DEF N
  <2>4. k.level[m] = Overflow
    BY <2>1, <2>3
  <2> QED  BY <2>2, <2>4 DEF Overflowed
<1>2. NoWayBack(h, {x}, C)
  <2> SUFFICES ASSUME NEW d \in 0 .. N, NEW b \in C[d], x \in h.children[b]
               PROVE  FALSE
    BY DEF NoWayBack
  <2> QED  BY <1>0, <1>1, BackOverflows
<1> QED  BY <1>1, <1>2 DEF Ends

-----------------------------------------------------------------------------
(* What can be reached from the root or from Anchor.                         *)
Forest(h, r) == Closure(h, {Anchor, r})

HasParent(h, n) == \E q \in Ids : n \in h.children[q]

(* n has the level that a child of p has.                                   *)
Stands(h, r, p, n) ==
    h.level[n] \in {h.level[p] + 1, RootLevel + 1} \/ (p = r /\ h.level[n] = 1)

(* Anchor does not count where it is not the root, or not the only one to     *)
(* have n for a child.                                                      *)
Fits(h, r, p, n) ==
    \/ Stands(h, r, p, n)
    \/ Excused(h, n)
    \/ p = Anchor /\ (r # Anchor \/ HasParent(h, n))

(* The levels follow the children, but for those of X.                       *)
Ordered(h, r, X) ==
    \A p \in Forest(h, r) :
        \A n \in (h.children[p] \cap h.index) \ (h.ghosts \cup X) : Fits(h, r, p, n)

(* Anchor and the root are in the forest, with the children of its nodes.   *)
LEMMA ForestHolds ==
  ASSUME NEW h \in Heaps, NEW r \in Nodes
  PROVE  /\ Anchor \in Forest(h, r) /\ r \in Forest(h, r) /\ Forest(h, r) \subseteq Nodes
         /\ \A n \in Forest(h, r) : h.children[n] \subseteq Forest(h, r)
<1>1. {Anchor, r} \in SUBSET Nodes
  BY DEF Nodes
<1>2. /\ {Anchor, r} \subseteq Forest(h, r) /\ Forest(h, r) \subseteq Nodes
      /\ \A n \in Forest(h, r) : h.children[n] \cap Nodes \subseteq Forest(h, r)
  BY <1>1, ClosureHolds DEF Forest
<1>3. \A n \in Nodes : h.children[n] \subseteq Nodes
  BY ChildrenTypes, Names
<1> QED  BY <1>2, <1>3

(* The forest is within every set that is closed that way.                  *)
LEMMA ForestLeast ==
  ASSUME NEW h \in Heaps, NEW r \in Nodes, NEW T \in SUBSET Nodes, Anchor \in T, r \in T,
         \A n \in T : h.children[n] \subseteq T
  PROVE  Forest(h, r) \subseteq T
<1>1. {Anchor, r} \subseteq T
  OBVIOUS
<1> QED  BY <1>1, ClosureLeast, Zenon DEF Forest

(* A node is below itself, with the children of what is below it.           *)
LEMMA BelowHolds ==
  ASSUME NEW h \in Heaps, NEW s \in Nodes
  PROVE  /\ s \in Below(h, s) /\ Below(h, s) \subseteq Nodes
         /\ \A n \in Below(h, s) : h.children[n] \subseteq Below(h, s)
<1>1. {s} \in SUBSET Nodes
  OBVIOUS
<1>2. /\ s \in Below(h, s) /\ Below(h, s) \subseteq Nodes
      /\ \A n \in Below(h, s) : h.children[n] \cap Nodes \subseteq Below(h, s)
  BY <1>1, ClosureHolds DEF Below
<1>3. \A n \in Nodes : h.children[n] \subseteq Nodes
  BY ChildrenTypes, Names
<1> QED  BY <1>2, <1>3

(* Below a node is nothing else.                                            *)
LEMMA BelowLeast ==
  ASSUME NEW h \in Heaps, NEW s, NEW T \in SUBSET Nodes, s \in T,
         \A n \in T : h.children[n] \subseteq T
  PROVE  Below(h, s) \subseteq T
<1>1. {s} \subseteq T
  OBVIOUS
<1> QED  BY <1>1, ClosureLeast, Zenon DEF Below

(* Anchor is not below a node.                                              *)
LEMMA BelowInIds ==
  ASSUME NEW h \in Heaps, NEW s \in Ids
  PROVE  Below(h, s) \subseteq Ids
<1>1. Ids \in SUBSET Nodes /\ \A n \in Ids : h.children[n] \subseteq Ids
  BY ChildrenTypes, Names
<1> QED  BY <1>1, BelowLeast

(* More children, or fewer of Anchor, excuse no node less.                    *)
LEMMA ExcusedStill ==
  ASSUME NEW h \in Heaps, NEW k \in Heaps, \A m \in Ids : h.children[m] \subseteq k.children[m],
         NEW n, Excused(h, n)
  PROVE  Excused(k, n)
<1>1. PICK s \in Ids : Torn(h, s) /\ n \in Below(h, s)
  BY DEF Excused
<1>2. Torn(k, s)
  BY <1>1 DEF Torn
<1>3. s \in Nodes /\ Below(k, s) \subseteq Ids
  BY BelowInIds, Names
<1>4. /\ s \in Below(k, s) /\ Below(k, s) \in SUBSET Nodes
      /\ \A m \in Below(k, s) : k.children[m] \subseteq Below(k, s)
  BY <1>3, BelowHolds
<1>5. \A m \in Below(k, s) : h.children[m] \subseteq Below(k, s)
  BY <1>3, <1>4
<1>6. Below(h, s) \subseteq Below(k, s)
  BY <1>4, <1>5, BelowLeast
<1> QED  BY <1>1, <1>2, <1>6 DEF Excused

(* What fits still does when no node lost a child, but for Anchor.          *)
LEMMA FitsStill ==
  ASSUME NEW h \in Heaps, NEW k \in Heaps, \A m \in Ids : h.children[m] \subseteq k.children[m],
         NEW r, NEW p, NEW n, k.level[p] = h.level[p], k.level[n] = h.level[n], Fits(h, r, p, n)
  PROVE  Fits(k, r, p, n)
<1>1. CASE Excused(h, n)
  BY <1>1, ExcusedStill DEF Fits
<1>2. CASE ~Excused(h, n)
  BY <1>2 DEF Fits, Stands, HasParent
<1> QED  BY <1>1, <1>2

-----------------------------------------------------------------------------
(* i becomes a child of q.  Only its own place has to be looked at: if more   *)
(* than i can be reached now, i has another parent that cannot, and excuses   *)
(* what is below it.                                                        *)
Links(h, k, q, i) ==
    /\ \A m \in Nodes : k.children[m] = IF m = q THEN h.children[m] \cup {i} ELSE h.children[m]
    /\ k.index \subseteq h.index \cup {i} /\ h.ghosts \subseteq k.ghosts
    /\ \A m \in Nodes : k.level[m] = h.level[m] \/ (m = i /\ h.children[i] = {})

(* Linking i leaves only i out of order.                                    *)
LEMMA LinkOrders ==
  ASSUME NEW h \in Heaps, NEW k \in Heaps, NEW r \in Nodes, NEW q \in Nodes, NEW i \in Ids,
         NEW X, Links(h, k, q, i), Ordered(h, r, X),
         h.children[i] = {} \/ (q \in Ids /\ \E z \in Nodes : i \in h.children[z])
  PROVE  Ordered(k, r, X \cup {i})
<1>0. i \in Nodes /\ Forest(h, r) \subseteq Nodes
      /\ \A m \in Nodes : h.children[m] \subseteq k.children[m] /\ h.children[m] \subseteq Nodes
  BY ForestHolds, ChildrenTypes, Names DEF Links
<1>l. \A m \in Nodes : /\ m # q => k.children[m] = h.children[m]
                      /\ k.children[m] \subseteq h.children[m] \cup {i}
  BY DEF Links
<1>q. i \in k.children[q]
  BY DEF Links
<1>1. ASSUME NEW p \in Forest(k, r), p \notin Forest(h, r)
      PROVE  h.children[p] = {} \/ (Torn(k, i) /\ p \in Below(k, i))
  <2>1. CASE h.children[i] = {}
    <3> DEFINE T == Forest(h, r) \cup {i}
    <3>1. T \in SUBSET Nodes /\ Anchor \in T /\ r \in T
      BY <1>0, ForestHolds
    <3>2. \A n \in T : k.children[n] \subseteq T
      BY <1>0, <1>l, <2>1, ForestHolds
    <3> HIDE DEF T
    <3>3. Forest(k, r) \subseteq T
      BY <3>1, <3>2, ForestLeast
    <3>4. p = i
      BY <1>1, <3>3 DEF T
    <3> QED  BY <2>1, <3>4
  <2>2. CASE i \in Forest(h, r) \/ q \notin Forest(h, r)
    <3> DEFINE T == Forest(h, r)
    <3>1. T \in SUBSET Nodes /\ Anchor \in T /\ r \in T
      BY ForestHolds
    <3>2. \A n \in T : k.children[n] \subseteq T
      BY <1>0, <1>l, <2>2, ForestHolds
    <3> HIDE DEF T
    <3>3. Forest(k, r) \subseteq T
      BY <3>1, <3>2, ForestLeast
    <3> QED  BY <1>1, <3>3 DEF T
  <2>3. CASE h.children[i] # {} /\ i \notin Forest(h, r) /\ q \in Forest(h, r)
    <3>1. PICK z \in Nodes : i \in h.children[z]
      BY <2>3
    <3>2. z \notin Forest(h, r)
      BY <2>3, <3>1, ForestHolds
    <3>3. z # q /\ z \in Ids /\ q \in Ids
      BY <2>3, <3>2, ForestHolds DEF Nodes
    <3>4. Torn(k, i)
      <4>1. i \in k.children[z] /\ i \in k.children[q]
        BY <1>0, <1>q, <3>1
      <4> QED  BY <3>3, <4>1 DEF Torn
    <3> DEFINE T == Forest(h, r) \cup Below(k, i)
    <3>5. T \in SUBSET Nodes /\ Anchor \in T /\ r \in T
      BY <1>0, ForestHolds, BelowHolds
    <3>6. \A n \in T : k.children[n] \subseteq T
      <4> SUFFICES ASSUME NEW n \in Nodes, n \in Forest(h, r), n \notin Below(k, i)
                   PROVE  k.children[n] \subseteq T
        BY <1>0, BelowHolds
      <4>1. h.children[n] \subseteq Forest(h, r) /\ i \in Below(k, i)
        BY <1>0, ForestHolds, BelowHolds
      <4> QED  BY <4>1, <1>l
    <3> HIDE DEF T
    <3>7. Forest(k, r) \subseteq T
      BY <3>5, <3>6, ForestLeast
    <3>8. p \in Below(k, i)
      BY <1>1, <3>7 DEF T
    <3> QED  BY <3>4, <3>8
  <2> QED  BY <2>1, <2>2, <2>3
<1> SUFFICES ASSUME NEW p \in Forest(k, r),
                    NEW n \in (k.children[p] \cap k.index) \ (k.ghosts \cup (X \cup {i}))
             PROVE  Fits(k, r, p, n)
  BY DEF Ordered
<1>2. p \in Nodes
  BY ForestHolds
<1>3. n \in (h.children[p] \cap h.index) \ (h.ghosts \cup X) /\ n # i /\ n \in Nodes
  <2>1. n \in h.children[p] /\ n # i /\ n \in Nodes
    BY <1>0, <1>2, <1>l
  <2> QED  BY <2>1 DEF Links
<1>4. CASE p \in Forest(h, r)
  <2>1. Fits(h, r, p, n)
    BY <1>3, <1>4 DEF Ordered
  <2>2. k.level[n] = h.level[n]
    BY <1>3 DEF Links
  <2>3. k.level[p] = h.level[p]
    BY <1>2, <1>3 DEF Links
  <2> QED  BY <1>0, <2>1, <2>2, <2>3, FitsStill, Names
<1>5. CASE p \notin Forest(h, r)
  <2>1. Torn(k, i) /\ p \in Below(k, i)
    BY <1>1, <1>3, <1>5
  <2>2. n \in Below(k, i)
    BY <1>0, <2>1, BelowHolds
  <2> QED  BY <2>1, <2>2 DEF Fits, Excused
<1> QED  BY <1>4, <1>5

(* i is no child of Anchor any more.                                        *)
LEMMA UnlinkOrders ==
  ASSUME NEW h \in Heaps, NEW k \in Heaps, NEW r \in Nodes, NEW i, NEW X, Ordered(h, r, X),
         k.children = [h.children EXCEPT ![Anchor] = @ \ {i}],
         k.index = h.index, k.ghosts = h.ghosts, k.level = h.level
  PROVE  Ordered(k, r, X)
<1>0. /\ \A m \in Ids : k.children[m] = h.children[m]
      /\ \A m \in Nodes : k.children[m] \subseteq h.children[m]
  BY Names DEF Heaps, Nodes
<1>1. Forest(k, r) \subseteq Forest(h, r)
  <2>1. \A n \in Forest(h, r) : k.children[n] \subseteq Forest(h, r)
    BY <1>0, ForestHolds
  <2>2. Forest(h, r) \in SUBSET Nodes /\ Anchor \in Forest(h, r) /\ r \in Forest(h, r)
    BY ForestHolds
  <2> QED  BY <2>1, <2>2, ForestLeast
<1> SUFFICES ASSUME NEW p \in Forest(k, r),
                    NEW n \in (k.children[p] \cap k.index) \ (k.ghosts \cup X)
             PROVE  Fits(k, r, p, n)
  BY DEF Ordered
<1>2. p \in Forest(h, r) /\ n \in (h.children[p] \cap h.index) \ (h.ghosts \cup X)
  BY <1>0, <1>1, ForestHolds
<1>3. Fits(h, r, p, n)
  BY <1>2 DEF Ordered
<1> QED  BY <1>0, <1>3, FitsStill

-----------------------------------------------------------------------------
(* setLevel on x, the child of one node only, as far as it is not excused.    *)
Relevelled(h, k, r, x, l) ==
    /\ Ordered(k, r, {x})
    /\ k.level[x] = l
    /\ \A q \in Ids : x \in h.children[q] => k.level[q] = h.level[q]

(* It orders x's children; x has the level given, its parents keep theirs.  *)
LEMMA SetLevelOrders ==
  ASSUME NEW h \in Heaps, NEW r \in Nodes, NEW x \in Ids, NEW l \in Int,
         NEW X \in SUBSET ({x} \cup h.children[x]), Ordered(h, r, X),
         ~Overflowed(SetLevel(h, {x}, l))
  PROVE  Relevelled(h, SetLevel(h, {x}, l), r, x, l)
<1> DEFINE k == SetLevel(h, {x}, l)
<1>0. {x} \in SUBSET Nodes /\ {x} \in SUBSET Ids /\ x \in Nodes
  BY Names
<1>1. PICK C : Relevels(h, {x}, l, C, k)
  BY <1>0, SetLevelRelevels
<1> HIDE DEF k
<1>2. ~Overflowed(k)
  BY DEF k
<1>3. NoWayBack(h, {x}, C) /\ Ends(C)
  BY <1>1, <1>2, EndsAway
<1>4. k \in Heaps /\ k.children = h.children /\ k.index = h.index /\ k.ghosts = h.ghosts
  BY <1>1 DEF Relevels
<1>5. k.level[x] = l
  BY <1>0, <1>1, <1>3, BeginsAtLevel
<1>6. Visited(C, x)
  <2>1. C[0] = {x} /\ 0 \in 0 .. Cardinality(Nodes)
    BY <1>1, NodesFinite DEF Relevels, Rounds
  <2> QED  BY <2>1 DEF Visited
<1>7. \A q \in Ids : x \in h.children[q] => ~Visited(C, q)
  BY <1>3 DEF NoWayBack, Visited
<1>8. \A q \in Ids : x \in h.children[q] => k.level[q] = h.level[q]
  BY <1>0, <1>1, <1>7, NotVisitedKeeps, Names
<1>9. Forest(k, r) = Forest(h, r)
  BY <1>4 DEF Forest, Closure
<1>10. \A n : Excused(k, n) <=> Excused(h, n)
  BY <1>4 DEF Excused, Torn, Below, Closure
<1> DEFINE S == {x}
<1>s. /\ S \in SUBSET Ids /\ Relevels(h, S, l, C, k) /\ NoWayBack(h, S, C)
      /\ Ends(C)
  BY <1>0, <1>1, <1>3
<1> HIDE DEF S
<1>v. ASSUME NEW p, Visited(C, p)
      PROVE  OneBelow(h, k, p)
  BY <1>s, <1>v, ChildOneBelow
<1>n. ASSUME NEW p \in Ids, ~Visited(C, p)
      PROVE  \A n \in h.children[p] \ S : ~Excused(h, n) => k.level[n] = h.level[n]
  BY <1>s, <1>n, FoundByParent
<1>11. Ordered(k, r, {x})
  <2> SUFFICES ASSUME NEW p \in Forest(h, r),
                      NEW n \in (h.children[p] \cap h.index) \ (h.ghosts \cup {x}),
                      ~Excused(h, n)
               PROVE  Fits(k, r, p, n)
    BY <1>4, <1>9, <1>10 DEF Ordered, Fits
  <2>0. p \in Nodes /\ n \in Ids /\ n \in Nodes /\ n \notin {x}
    BY ForestHolds, ChildrenTypes, Names
  <2>1. CASE p = Anchor /\ (r # Anchor \/ HasParent(h, n))
    BY <1>4, <2>1 DEF Fits, HasParent
  <2>2. CASE p = Anchor /\ ~(r # Anchor \/ HasParent(h, n))
    <3>1. n \notin X
      BY <2>0, <2>2 DEF HasParent
    <3>2. Stands(h, r, p, n)
      BY <2>2, <3>1 DEF Ordered, Fits
    <3>3. ~Visited(C, n)
      <4> SUFFICES ASSUME NEW d \in 0 .. Cardinality(Nodes), n \in C[d] PROVE FALSE
        BY DEF Visited
      <4>1. Rounds(h, {x}, l, C)
        BY <1>1 DEF Relevels
      <4>2. d # 0
        BY <2>0, <4>1 DEF Rounds
      <4>3. d \in 1 .. Cardinality(Nodes) /\ d - 1 \in 0 .. Cardinality(Nodes)
        BY <4>2, NodesFinite
      <4>4. PICK q \in C[d - 1] : n \in h.children[q]
        BY <1>0, <4>1, <4>3, VisitedByParent
      <4>5. q \in Ids
        BY <1>0, <4>1, <4>3, <4>4, RoundsInIds
      <4> QED  BY <2>2, <4>4, <4>5 DEF HasParent
    <3>4. ~Visited(C, p)
      <4>1. Rounds(h, {x}, l, C)
        BY <1>1 DEF Relevels
      <4> QED  BY <1>0, <2>2, <4>1, RoundsInIds, Names DEF Visited
    <3>5. k.level[n] = h.level[n] /\ k.level[p] = h.level[p]
      BY <1>1, <2>0, <3>3, <3>4, NotVisitedKeeps
    <3> QED  BY <3>2, <3>5 DEF Fits, Stands
  <2>3. CASE p # Anchor /\ Visited(C, p)
    <3>0. n \in h.children[p]
      OBVIOUS
    <3>2. k.level[n] = k.level[p] + 1
      BY <1>v, <2>3, <3>0 DEF OneBelow
    <3> QED  BY <3>2 DEF Fits, Stands
  <2>4. CASE p # Anchor /\ ~Visited(C, p)
    <3>1. p \in Ids
      BY <2>0, <2>4 DEF Nodes
    <3>0. n \in h.children[p]
      OBVIOUS
    <3>2. k.level[n] = h.level[n]
      BY <1>n, <2>0, <2>4, <3>0, <3>1 DEF S
    <3>3. k.level[p] = h.level[p]
      BY <1>1, <2>0, <2>4, NotVisitedKeeps
    <3>4. n \notin h.children[x]
      <4> SUFFICES ASSUME n \in h.children[x] PROVE FALSE
        OBVIOUS
      <4>1. p # x
        BY <1>6, <2>4
      <4>2. Torn(h, n)
        BY <3>1, <4>1 DEF Torn
      <4> QED  BY <2>0, <4>2, TornIsExcused
    <3>5. n \notin X
      BY <2>0, <3>4
    <3>6. Stands(h, r, p, n)
      BY <2>4, <3>5 DEF Ordered, Fits
    <3> QED  BY <3>2, <3>3, <3>6 DEF Fits, Stands
  <2> QED  BY <2>1, <2>2, <2>3, <2>4
<1> QED  BY <1>5, <1>8, <1>11 DEF k, Relevelled

(* The last node to look at.                                                *)
LEMMA LastOrders ==
  ASSUME NEW h \in Heaps, NEW r \in Nodes, NEW x \in Ids, Ordered(h, r, {x}),
         \/ x \notin h.index \ h.ghosts
         \/ Torn(h, x)
         \/ \E q \in Ids : x \in h.children[q] /\ h.level[x] \in {h.level[q] + 1, RootLevel + 1}
  PROVE  Ordered(h, r, {})
<1> SUFFICES ASSUME NEW p \in Forest(h, r), x \in (h.children[p] \cap h.index) \ h.ghosts
             PROVE  Fits(h, r, p, x)
  BY DEF Ordered
<1>1. CASE Torn(h, x)
  BY <1>1, TornIsExcused DEF Fits
<1>2. CASE ~Torn(h, x)
  <2>1. PICK q \in Ids : x \in h.children[q] /\ h.level[x] \in {h.level[q] + 1, RootLevel + 1}
    BY <1>2
  <2>2. CASE p = q
    BY <2>1, <2>2 DEF Fits, Stands
  <2>3. CASE p = Anchor
    BY <2>1, <2>3 DEF Fits, HasParent
  <2>4. CASE p # q /\ p # Anchor
    <3>1. p \in Ids
      BY <2>4, ForestHolds DEF Nodes
    <3> QED  BY <1>2, <2>1, <2>4, <3>1 DEF Torn
  <2> QED  BY <2>2, <2>3, <2>4
<1> QED  BY <1>1, <1>2

-----------------------------------------------------------------------------
(* Where nothing is excused every visit is of another node, and there are not *)
(* enough nodes to go on.                                                   *)
LEMMA RoundsEnd ==
  ASSUME NEW h \in Heaps, NEW S \in SUBSET Ids, NEW l \in Int, NEW C, Rounds(h, S, l, C),
         NoWayBack(h, S, C), \A n \in Ids : ~Excused(h, n)
  PROVE  Ends(C)
<1> DEFINE N == Cardinality(Nodes)
           D == 0 .. N
           f == [d \in D |-> CHOOSE m \in C[d] : TRUE]
<1>0. N \in Nat /\ IsFiniteSet(Nodes)
  BY NodesFinite
<1> SUFFICES ASSUME C[N] # {} PROVE FALSE
  BY DEF Ends
<1>1. \A d \in D : C[d] # {} /\ C[d] \subseteq Ids
  <2>1. N \in D
    BY <1>0
  <2>2. \A d \in 0 .. N : C[d] # {}
    BY <2>1, RoundsBefore
  <2> QED  BY <2>2, RoundsInIds
<1>2. \A d \in D : f[d] \in C[d] /\ f[d] \in Ids
  BY <1>1
<1>3. f \in [D -> Nodes]
  BY <1>2, Names
<1>4. \A d, e \in D : f[d] = f[e] => d = e
  <2> HIDE DEF f
  <2> SUFFICES ASSUME NEW d \in D, NEW e \in D, f[d] = f[e] PROVE d = e
    OBVIOUS
  <2> DEFINE m == f[d]
  <2>1. m \in Ids /\ m \in C[d] /\ m \in C[e]
    BY <1>2
  <2> HIDE DEF m
  <2>2. ~Excused(h, m)
    BY <2>1
  <2> QED  BY <2>1, <2>2, OneDepth
<1>5. IsFiniteSet(D) /\ Cardinality(D) = N + 1
  <2>1. 0 \in Int /\ N \in Int
    BY <1>0
  <2> HIDE DEF N
  <2>2. IsFiniteSet(0 .. N) /\ Cardinality(0 .. N) = IF 0 > N THEN 0 ELSE N - 0 + 1
    BY <2>1, FS_Interval
  <2> QED  BY <2>2, <1>0
<1> HIDE DEF D, f
<1>6. \E d, e \in D : d # e /\ f[d] = f[e]
  <2>1. Cardinality(D) > Cardinality(Nodes)
    BY <1>0, <1>5
  <2> QED  BY <1>0, <1>3, <1>5, <2>1, FS_PigeonHole
<1> QED  BY <1>4, <1>6

-----------------------------------------------------------------------------
(* What Remove leaves.                                                      *)
Rest(h, k, gone) ==
    /\ k \in Heaps
    /\ k.index = h.index \ gone
    /\ k.made = h.made /\ k.bare = h.bare /\ k.ghosts = h.ghosts
    /\ k.parent = h.parent /\ k.level = h.level
    /\ k.children = [n \in Nodes |-> h.children[n] \ {c \in gone : h.parent[c] = n}]

(* A torn node that stays keeps its parents, and what is below it and stays   *)
(* its way to it.                                                           *)
LEMMA RemovedOrders ==
  ASSUME NEW h \in Heaps, NEW k, NEW r \in Nodes, NEW t \in Nodes,
         Rest(h, k, (Below(h, t) \ {Anchor}) \ h.ghosts), Ordered(h, r, {})
  PROVE  Ordered(k, r, {})
<1> DEFINE gone == (Below(h, t) \ {Anchor}) \ h.ghosts
<1>f. /\ k \in Heaps /\ k.index = h.index \ gone /\ k.ghosts = h.ghosts /\ k.level = h.level
      /\ k.children = [n \in Nodes |-> h.children[n] \ {c \in gone : h.parent[c] = n}]
  BY DEF Rest
<1>g. gone = (Below(h, t) \ {Anchor}) \ h.ghosts
  OBVIOUS
<1> HIDE DEF gone
<1> USE <1>f, <1>g
<1>0. \A m \in Nodes : /\ k.children[m] \subseteq h.children[m]
                      /\ h.children[m] \ gone \subseteq k.children[m]
  BY <1>f
<1>1. Forest(k, r) \subseteq Forest(h, r)
  <2>1. \A n \in Forest(h, r) : k.children[n] \subseteq Forest(h, r)
    BY <1>0, ForestHolds
  <2>2. Forest(h, r) \in SUBSET Nodes /\ Anchor \in Forest(h, r) /\ r \in Forest(h, r)
    BY ForestHolds
  <2> QED  BY <2>1, <2>2, ForestLeast
<1> SUFFICES ASSUME NEW p \in Forest(k, r), NEW n \in (k.children[p] \cap k.index) \ k.ghosts
             PROVE  Fits(k, r, p, n)
  BY DEF Ordered
<1>2. /\ p \in Forest(h, r) /\ n \in (h.children[p] \cap h.index) \ h.ghosts
      /\ n \notin gone /\ n \in Ids
  BY <1>0, <1>1, ForestHolds, ChildrenTypes
<1>3. Fits(h, r, p, n)
  BY <1>2 DEF Ordered
<1>4. CASE Excused(h, n)
  <2>1. PICK s \in Ids : Torn(h, s) /\ n \in Below(h, s)
    BY <1>4 DEF Excused
  <2>2. n \notin Below(h, t)
    BY <1>2, Names
  <2>3. /\ s \in Nodes /\ Below(h, t) \in SUBSET Nodes
        /\ \A m \in Below(h, t) : h.children[m] \subseteq Below(h, t)
    BY BelowHolds, Names
  <2>4. s \notin Below(h, t)
    <3> SUFFICES ASSUME s \in Below(h, t) PROVE FALSE
      OBVIOUS
    <3>1. Below(h, s) \subseteq Below(h, t)
      BY <2>3, BelowLeast
    <3> QED  BY <2>1, <2>2, <3>1
  <2>5. Torn(k, s)
    <3>1. s \notin gone
      BY <2>4
    <3>2. \A q \in Ids : s \in h.children[q] => s \in k.children[q]
      BY <1>0, <3>1, Names
    <3> QED  BY <2>1, <3>2 DEF Torn
  <2> DEFINE T == Below(k, s) \cup Below(h, t)
  <2>6. T \in SUBSET Nodes /\ s \in T
    BY <2>3, BelowHolds
  <2>7. \A m \in T : h.children[m] \subseteq T
    <3> SUFFICES ASSUME NEW m \in Below(k, s), NEW c \in h.children[m] PROVE c \in T
      BY <2>3
    <3>1. m \in Nodes /\ k.children[m] \subseteq Below(k, s)
      BY <2>3, BelowHolds
    <3>2. CASE c \in gone
      BY <3>2
    <3>3. CASE c \notin gone
      BY <1>0, <3>1, <3>3
    <3> QED  BY <3>2, <3>3
  <2> HIDE DEF T
  <2>8. Below(h, s) \subseteq T
    BY <2>6, <2>7, BelowLeast
  <2>9. n \in Below(k, s)
    BY <2>1, <2>2, <2>8 DEF T
  <2> QED  BY <2>5, <2>9 DEF Fits, Excused
<1>5. CASE ~Excused(h, n)
  <2>1. HasParent(h, n) => HasParent(k, n)
    BY <1>0, <1>2, Names DEF HasParent
  <2> QED  BY <1>3, <1>5, <2>1 DEF Fits, Stands
<1> QED  BY <1>4, <1>5

-----------------------------------------------------------------------------
(* What holds of every heap a call leaves behind.                            *)

(* Links lead to nodes that were made, and a bare node has no children.       *)
Made(h) ==
    /\ h.index \cup h.bare \cup h.ghosts \subseteq h.made
    /\ \A n \in h.bare : h.children[n] = {}
    /\ \A n \in Nodes : h.children[n] \subseteq h.made
    /\ \A n \in Ids \ h.made : h.children[n] = {}
    /\ \A n \in Ids : h.parent[n] \in h.made \cup {Anchor, Nil}

(* isRoot holds of the root and of Anchor only.                              *)
Roots(h, r) ==
    \A n \in Nodes : h.level[n] >= RootLevel /\ (h.level[n] = RootLevel => n \in {r, Anchor})

(* A node is a child of its parent, unless it was added at the root.          *)
Kept(h, r) ==
    \A n \in h.index \ h.ghosts :
        h.parent[n] \in h.index \ {r} => n \in h.children[h.parent[n]]

(* A node that is not in the index is not a child of its parent.             *)
Left(h) == \A n \in Nodes : \A c \in h.children[n] \ h.index : h.parent[c] # n

(* Nothing leaves the index.                                                *)
Grows(h, k) == h.index \subseteq k.index /\ h.made \subseteq k.made

(* A node is a child of its parent, which is not Anchor, or of another.       *)
Placed(h) ==
    /\ \A n \in h.index \ h.bare : \E q \in Nodes : n \in h.children[q]
    /\ \A n \in (h.index \ h.ghosts) \ h.bare :
          h.parent[n] # Nil => n \in h.children[h.parent[n]]
    /\ \A n \in Ids \ h.bare : h.parent[n] # Anchor

Sound(h, r) ==
    /\ h \in Heaps
    /\ Made(h) /\ Roots(h, r) /\ Kept(h, r) /\ Left(h) /\ Placed(h)

(* The links are sound, and the levels follow them everywhere in the forest. *)
IInv ==
    /\ Sound(heap, root)
    /\ Ordered(heap, root, {})
    /\ root \in heap.made \cup {Anchor}
    /\ status \in {"ok", "fresh", "again", "remove"}

-----------------------------------------------------------------------------
(* Nodes at or below others.                                                *)

(* A caller gets hold of nodes that were made, or of Anchor.                *)
LEMMA ReachableIsMade ==
  ASSUME IInv
  PROVE  Reachable \subseteq heap.made \cup {Anchor}
<1>1. Below(heap, Anchor) \subseteq heap.made \cup {Anchor}
  <2> DEFINE T == heap.made \cup {Anchor}
  <2>1. T \in SUBSET Nodes /\ {Anchor} \subseteq T
    BY DEF IInv, Sound, Heaps, Nodes
  <2>2. \A n \in T : heap.children[n] \subseteq T
    BY <2>1 DEF IInv, Sound, Made
  <2> HIDE DEF T
  <2>3. Closure(heap, {Anchor}) \subseteq T
    BY <2>1, <2>2, ClosureLeast
  <2> QED  BY <2>3 DEF Below, T
<1> QED  BY <1>1 DEF Reachable, IInv, Sound, Made

-----------------------------------------------------------------------------
(* setLevel changes levels only, and none of them to less than it was given.  *)
LevelsOnly(h, k, l) ==
    /\ k \in Heaps
    /\ k.index = h.index /\ k.made = h.made /\ k.bare = h.bare /\ k.ghosts = h.ghosts
    /\ k.children = h.children /\ k.parent = h.parent
    /\ \A m \in Nodes : k.level[m] \in {h.level[m], Overflow} \/ k.level[m] >= l

LEMMA SetLevelFields ==
  ASSUME NEW h \in Heaps, NEW S \in SUBSET Nodes, NEW l \in Int
  PROVE  LevelsOnly(h, SetLevel(h, S, l), l)
<1> DEFINE k == SetLevel(h, S, l)
<1>1. PICK C : Relevels(h, S, l, C, k)
  BY SetLevelRelevels
<1> HIDE DEF k
<1>2. \A m \in Nodes : k.level[m] \in {h.level[m], Overflow} \/ k.level[m] >= l
  <2> SUFFICES ASSUME NEW m \in Nodes
               PROVE  k.level[m] \in {h.level[m], Overflow} \/ k.level[m] >= l
    OBVIOUS
  <2>1. \/ k.level[m] \in {h.level[m], Overflow}
        \/ \E d \in 0 .. Cardinality(Nodes) : k.level[m] = l + d
    BY <1>1 DEF Relevels
  <2> QED  BY <2>1, NodesFinite
<1> QED  BY <1>1, <1>2 DEF Relevels, LevelsOnly, k

(* It keeps the links sound.                                                *)
LEMMA SetLevelSound ==
  ASSUME NEW h, NEW r, NEW S \in SUBSET Nodes, NEW l \in Int, l > RootLevel, Sound(h, r),
         ~Overflowed(SetLevel(h, S, l))
  PROVE  Sound(SetLevel(h, S, l), r) /\ Grows(h, SetLevel(h, S, l))
<1> DEFINE k == SetLevel(h, S, l)
<1>1. /\ k \in Heaps
      /\ k.index = h.index /\ k.made = h.made /\ k.bare = h.bare /\ k.ghosts = h.ghosts
      /\ k.children = h.children /\ k.parent = h.parent
      /\ \A m \in Nodes : k.level[m] \in {h.level[m], Overflow} \/ k.level[m] >= l
  <2>1. LevelsOnly(h, k, l)
    BY SetLevelFields DEF Sound
  <2> HIDE DEF k
  <2> QED  BY <2>1 DEF LevelsOnly
<1> HIDE DEF k
<1>2. \A m \in Nodes : k.level[m] = h.level[m] \/ k.level[m] > RootLevel
  <2>1. \A m \in Nodes : k.level[m] # Overflow /\ k.level[m] \in Int
    BY <1>1 DEF Overflowed, k, Heaps
  <2> QED  BY <1>1, <2>1 DEF RootLevel
<1>3. Roots(k, r)
  BY <1>1, <1>2 DEF Sound, Roots, RootLevel, Heaps
<1>4. Made(k) /\ Kept(k, r) /\ Left(k) /\ Placed(k)
  BY <1>1 DEF Sound, Made, Kept, Left, Placed
<1> QED  BY <1>1, <1>3, <1>4 DEF Sound, Grows, k

-----------------------------------------------------------------------------
(* The links that Add makes.                                                *)

(* i made a child of p, its new parent.                                      *)
LEMMA LinkSound ==
  ASSUME NEW h, NEW r, Sound(h, r), NEW i \in h.index, NEW p \in h.made, p \notin h.bare
  PROVE  LET k == [h EXCEPT !.parent[i] = p, !.children[p] = @ \cup {i}]
         IN  Sound(k, r) /\ Grows(h, k)
<1> DEFINE k == [h EXCEPT !.parent[i] = p, !.children[p] = @ \cup {i}]
<1>0. i \in Ids /\ i \in h.made /\ p \in Ids /\ p \in Nodes /\ p # Nil /\ p # Anchor
  BY Names DEF Sound, Made, Heaps, Nodes
<1>1. /\ k \in Heaps
      /\ k.index = h.index /\ k.made = h.made /\ k.bare = h.bare /\ k.ghosts = h.ghosts
      /\ k.level = h.level
      /\ k.children = [h.children EXCEPT ![p] = @ \cup {i}]
      /\ k.parent = [h.parent EXCEPT ![i] = p]
  BY <1>0 DEF Sound, Heaps
<1> HIDE DEF k
<1>2. Made(k)
  BY <1>0, <1>1, Names DEF Sound, Made, Heaps
<1>3. Roots(k, r)
  BY <1>1 DEF Sound, Roots
<1>4. Kept(k, r)
  BY <1>0, <1>1, Names DEF Sound, Kept, Heaps, Made
<1>5. Left(k)
  BY <1>0, <1>1, Names DEF Sound, Left, Heaps
<1>6. Placed(k)
  BY <1>0, <1>1, Names DEF Sound, Placed, Heaps
<1> QED  BY <1>1, <1>2, <1>3, <1>4, <1>5, <1>6 DEF Sound, Grows, k

(* i made the child of a ghost.                                             *)
LEMMA GhostSound ==
  ASSUME NEW h, NEW r, Sound(h, r), NEW i \in h.index, NEW p \in Ids \ h.made
  PROVE  Sound(AddGhost(h, i, p), r) /\ Grows(h, AddGhost(h, i, p))
<1> DEFINE k == AddGhost(h, i, p)
<1>0. i \in Ids /\ i \in h.made /\ p \in Nodes /\ p # Anchor /\ Anchor \in Nodes
  BY Names DEF Sound, Made, Heaps, Nodes
<1> DEFINE children == [m \in Nodes |-> CASE m = p      -> {i}
                                           [] m = Anchor -> h.children[m] \cup {p}
                                           [] OTHER      -> h.children[m]]
           level == [h.level EXCEPT ![p] = 0]
<1>a. h \in Heaps
  BY DEF Sound
<1>b. children \in [Nodes -> SUBSET Ids] /\ level \in [Nodes -> Int]
  BY <1>0, <1>a DEF Heaps
<1>c. k = [h EXCEPT !.index = @ \cup {p}, !.made = @ \cup {p}, !.ghosts = @ \cup {p},
                    !.children = children, !.level = level]
  BY <1>a DEF Heaps, AddGhost
<1> HIDE DEF k, children, level
<1>1. /\ k \in Heaps
      /\ k.index = h.index \cup {p} /\ k.made = h.made \cup {p} /\ k.bare = h.bare
      /\ k.ghosts = h.ghosts \cup {p}
      /\ k.level = level /\ k.children = children /\ k.parent = h.parent
  BY <1>0, <1>a, <1>b, <1>c DEF Heaps
<1> USE DEF children, level
<1> HIDE DEF k
<1>2. Made(k)
  BY <1>0, <1>1, Names DEF Sound, Made, Heaps
<1>3. Roots(k, r)
  BY <1>0, <1>1 DEF Sound, Roots, Heaps, RootLevel
<1>4. Kept(k, r)
  BY <1>0, <1>1, Names DEF Sound, Kept, Heaps, Made
<1>5. Left(k)
  BY <1>0, <1>1, Names DEF Sound, Left, Heaps, Made
<1>6. Placed(k)
  <2>1. /\ \A m \in Nodes : h.children[m] \subseteq k.children[m]
        /\ p \in k.children[Anchor]
    BY <1>0, <1>1 DEF Sound, Made
  <2>2. h.index \subseteq Ids /\ \A n \in Ids : h.parent[n] # Nil => h.parent[n] \in Nodes
    BY <1>a DEF Heaps
  <2> HIDE DEF children, level
  <2> QED  BY <1>0, <1>1, <2>1, <2>2 DEF Sound, Placed
<1> QED  BY <1>1, <1>2, <1>3, <1>4, <1>5, <1>6 DEF Sound, Grows, k

(* addToParent does either, or nothing.                                     *)
LEMMA AddToParentSound ==
  ASSUME NEW h, NEW r, Sound(h, r), NEW i \in h.index,
         NEW p \in h.index \cup {Nil} \cup (Ids \ h.made), p \notin h.bare
  PROVE  Sound(AddToParent(h, i, p), r) /\ Grows(h, AddToParent(h, i, p))
<1> DEFINE k == [h EXCEPT !.parent[i] = p, !.children[p] = @ \cup {i}]
           g == AddGhost(h, i, p)
<1>0. AddToParent(h, i, p) = IF p = Nil THEN h ELSE IF p \in h.index THEN k ELSE g
  <2>1. Nil \notin h.index
    BY Names DEF Sound, Heaps
  <2> QED  BY <2>1, Zenon DEF AddToParent
<1> HIDE DEF k, g
<1>1. CASE p = Nil
  <2>1. AddToParent(h, i, p) = h
    BY <1>0, <1>1
  <2> QED  BY <2>1 DEF Grows
<1>2. CASE p # Nil /\ p \in h.index
  <2>1. AddToParent(h, i, p) = k
    BY <1>0, <1>2
  <2>2. p \in h.made
    BY <1>2 DEF Sound, Made
  <2>3. Sound(k, r) /\ Grows(h, k)
    BY <2>2, LinkSound DEF k
  <2> QED  BY <2>1, <2>3
<1>3. CASE p # Nil /\ p \notin h.index
  <2>1. AddToParent(h, i, p) = g /\ p \in Ids \ h.made
    BY <1>0, <1>3
  <2>2. Sound(g, r) /\ Grows(h, g)
    BY <2>1, GhostSound DEF g
  <2> QED  BY <2>1, <2>2
<1> QED  BY <1>1, <1>2, <1>3

(* Only the place of i has to be looked at then.                             *)
LEMMA GhostOrders ==
  ASSUME NEW h, NEW r \in Nodes, NEW X, Sound(h, r), Ordered(h, r, X), NEW i \in h.index,
         NEW p \in Ids \ h.made
  PROVE  Ordered(AddGhost(h, i, p), r, X \cup {i})
<1> DEFINE k == AddGhost(h, i, p)
           children == [m \in Nodes |-> CASE m = p      -> {i}
                                           [] m = Anchor -> h.children[m] \cup {p}
                                           [] OTHER      -> h.children[m]]
           level == [h.level EXCEPT ![p] = 0]
           none == [m \in Nodes |-> IF m = Anchor THEN h.children[m] \cup {p} ELSE h.children[m]]
           g == [h EXCEPT !.index = @ \cup {p}, !.made = @ \cup {p}, !.ghosts = @ \cup {p},
                          !.children = none, !.level = level]
<1>0. /\ h \in Heaps /\ i \in Ids /\ i \in Nodes /\ i # p /\ p \in Nodes /\ p # Anchor /\ i # Anchor
      /\ Anchor \in Nodes /\ h.children[p] = {}
  BY Names DEF Sound, Made, Heaps, Nodes
<1>1. /\ children \in [Nodes -> SUBSET Ids] /\ level \in [Nodes -> Int]
      /\ none \in [Nodes -> SUBSET Ids]
  BY <1>0 DEF Heaps
<1>2. k = [h EXCEPT !.index = @ \cup {p}, !.made = @ \cup {p}, !.ghosts = @ \cup {p},
                    !.children = children, !.level = level]
  BY <1>0 DEF Heaps, AddGhost
<1>3. /\ \A m \in Nodes : none[m] = IF m = Anchor THEN h.children[m] \cup {p} ELSE h.children[m]
      /\ \A m \in Nodes : children[m] = IF m = p THEN none[m] \cup {i} ELSE none[m]
      /\ \A m \in Nodes : level[m] = h.level[m] \/ m = p
  BY <1>0 DEF Heaps
<1> HIDE DEF children, level, none, k
<1>p. h \in Heaps /\ p \in Ids
  BY <1>0
<1>a. /\ k \in Heaps /\ k.index = h.index \cup {p} /\ k.ghosts = h.ghosts \cup {p}
      /\ k.level = level /\ k.children = children
  BY <1>p, <1>1, <1>2 DEF Heaps
<1>b. /\ g \in Heaps /\ g.index = h.index \cup {p} /\ g.ghosts = h.ghosts \cup {p}
      /\ g.level = level /\ g.children = none
  BY <1>p, <1>1 DEF Heaps
<1> HIDE DEF g
<1>4. /\ k \in Heaps /\ k.index = h.index \cup {p} /\ k.ghosts = h.ghosts \cup {p}
      /\ k.level = level /\ k.children = children
      /\ g \in Heaps /\ g.index = h.index \cup {p} /\ g.ghosts = h.ghosts \cup {p}
      /\ g.level = level /\ g.children = none
  BY <1>a, <1>b
<1>5. Links(h, g, Anchor, p)
  BY <1>0, <1>3, <1>4 DEF Links
<1>6. Ordered(g, r, X \cup {p})
  BY <1>0, <1>4, <1>5, LinkOrders
<1>7. Ordered(g, r, X)
  BY <1>4, <1>6 DEF Ordered
<1>8. Links(g, k, p, i)
  BY <1>3, <1>4 DEF Links
<1>9. g.children[i] = {} \/ \E z \in Nodes : i \in g.children[z]
  <2>1. h.children[i] = {} \/ \E z \in Nodes : i \in h.children[z]
    BY DEF Sound, Placed, Made
  <2> QED  BY <1>0, <1>3, <1>4, <2>1
<1>10. Ordered(k, r, X \cup {i})
  BY <1>0, <1>4, <1>7, <1>8, <1>9, LinkOrders
<1> QED  BY <1>10 DEF k

(* The same of a parent that is there.                                      *)
LEMMA ParentOrders ==
  ASSUME NEW h, NEW r \in Nodes, NEW X, Sound(h, r), Ordered(h, r, X), NEW i \in h.index,
         NEW p \in h.made
  PROVE  LET k == [h EXCEPT !.parent[i] = p, !.children[p] = @ \cup {i}]
         IN  Ordered(k, r, X \cup {i}) /\ i \in k.children[p]
<1> DEFINE k == [h EXCEPT !.parent[i] = p, !.children[p] = @ \cup {i}]
<1>0. h \in Heaps /\ i \in Ids /\ p \in Ids /\ p \in Nodes
  BY Names DEF Sound, Made, Heaps
<1>1. /\ k \in Heaps /\ k.index = h.index /\ k.ghosts = h.ghosts /\ k.level = h.level
      /\ k.children = [h.children EXCEPT ![p] = @ \cup {i}]
  BY <1>0, Names DEF Heaps
<1> HIDE DEF k
<1>2. h.children \in [Nodes -> SUBSET Ids]
  BY <1>0 DEF Heaps
<1>3. Links(h, k, p, i)
  BY <1>0, <1>1, <1>2 DEF Links
<1>4. h.children[i] = {} \/ \E z \in Nodes : i \in h.children[z]
  BY DEF Sound, Placed, Made
<1>5. Ordered(k, r, X \cup {i})
  BY <1>0, <1>1, <1>3, <1>4, LinkOrders
<1> QED  BY <1>0, <1>1, <1>2, <1>5 DEF k

(* So of addToParent.                                                       *)
LEMMA AddToParentOrders ==
  ASSUME NEW h, NEW r \in Nodes, NEW X, Sound(h, r), Ordered(h, r, X), NEW i \in h.index,
         NEW p \in h.index \cup {Nil} \cup (Ids \ h.made)
  PROVE  Ordered(AddToParent(h, i, p), r, X \cup {i})
<1>0. Nil \notin h.index /\ h.index \subseteq h.made
  BY Names DEF Sound, Heaps, Made
<1>1. CASE p = Nil
  <2>1. AddToParent(h, i, p) = h
    BY <1>0, <1>1, Zenon DEF AddToParent
  <2>2. Ordered(h, r, X \cup {i})
    <3> SUFFICES ASSUME NEW q \in Forest(h, r),
                        NEW n \in (h.children[q] \cap h.index) \ (h.ghosts \cup (X \cup {i}))
                 PROVE  Fits(h, r, q, n)
      BY DEF Ordered
    <3> QED  BY DEF Ordered
  <2> QED  BY <2>1, <2>2
<1>2. CASE p # Nil /\ p \in h.index
  <2> DEFINE k == [h EXCEPT !.parent[i] = p, !.children[p] = @ \cup {i}]
  <2>1. AddToParent(h, i, p) = k
    BY <1>2 DEF AddToParent
  <2>2. Ordered(k, r, X \cup {i})
    BY <1>0, <1>2, ParentOrders
  <2> QED  BY <2>1, <2>2
<1>3. CASE p # Nil /\ p \notin h.index
  <2>1. AddToParent(h, i, p) = AddGhost(h, i, p)
    BY <1>3 DEF AddToParent
  <2>2. Ordered(AddGhost(h, i, p), r, X \cup {i})
    BY <1>3, GhostOrders
  <2> QED  BY <2>1, <2>2
<1> QED  BY <1>1, <1>2, <1>3

-----------------------------------------------------------------------------
(* Add.                                                                     *)

Good(h) == Sound(h, root) /\ Ordered(h, root, {})

(* A call that panics leaves the heap, as one whose stack overflowed.         *)
LEMMA PanicKeeps ==
  ASSUME IInv, UNCHANGED root, NEW kind \in {"fresh", "again", "remove"}, Panics(kind)
  PROVE  IInv'
  BY DEF Panics, IInv

(* A call that returns leaves what it made, if that is good.                *)
LEMMA CallSound ==
  ASSUME IInv, UNCHANGED root, NEW h, NEW kind \in {"fresh", "again", "remove"},
         ~Overflowed(h) => Good(h) /\ heap.made \subseteq h.made, Returns(h, kind)
  PROVE  IInv'
<1>1. CASE Overflowed(h)
  BY <1>1, PanicKeeps DEF Returns
<1>2. CASE ~Overflowed(h)
  <2>1. heap' = h /\ UNCHANGED status
    BY <1>2 DEF Returns
  <2> QED  BY <1>2, <2>1 DEF IInv, Good
<1> QED  BY <1>1, <1>2

(* The node Add makes, before it is linked.                                  *)
NodeOf(k, t, i) ==
    /\ k \in Heaps
    /\ k.index = heap.index \cup {i} /\ k.made = heap.made \cup {i}
    /\ k.bare = heap.bare \cup {i} /\ k.ghosts = heap.ghosts
    /\ k.parent = [heap.parent EXCEPT ![i] = t]
    /\ k.level = [heap.level EXCEPT ![i] = heap.level[t] + 1]
    /\ k.children = heap.children

(* What NewNode changes.                                                    *)
LEMMA NodeFields ==
  ASSUME heap \in Heaps, NEW t \in Nodes, NEW i \in Ids, NEW p \in Ids \cup {Nil}
  PROVE  NodeOf(NewNode(t, i, p), t, i)
<1> DEFINE pid == [heap.pid EXCEPT ![i] = p]
           parent == [heap.parent EXCEPT ![i] = t]
           level == [heap.level EXCEPT ![i] = heap.level[t] + 1]
           k == [heap EXCEPT !.index = @ \cup {i}, !.made = @ \cup {i}, !.bare = @ \cup {i},
                             !.pid = pid, !.parent = parent, !.level = level]
<1>1. /\ pid \in [Ids -> Ids \cup {Nil}] /\ parent \in [Ids -> Nodes \cup {Nil}]
      /\ level \in [Nodes -> Int]
  BY Names DEF Heaps
<1>2. NewNode(t, i, p) = k
  BY DEF NewNode
<1> HIDE DEF pid, parent, level
<1>3. /\ k \in Heaps
      /\ k.index = heap.index \cup {i} /\ k.made = heap.made \cup {i}
      /\ k.bare = heap.bare \cup {i} /\ k.ghosts = heap.ghosts
      /\ k.parent = parent /\ k.level = level /\ k.children = heap.children
  BY <1>1 DEF Heaps
<1>4. NodeOf(k, t, i)
  BY <1>3 DEF parent, level, NodeOf
<1> QED  BY <1>2, <1>4

(* On a root the node's parent is the root, and nobody's child.              *)
LEMMA RootNodeSound ==
  ASSUME IInv, NEW t \in heap.made \cup {Anchor}, NEW i \in Ids \ heap.made,
         NEW p \in Ids \cup {Nil}, heap.level[t] = RootLevel
  PROVE  Sound(NewNode(t, i, p), root) /\ Grows(heap, NewNode(t, i, p))
<1> DEFINE k == NewNode(t, i, p)
<1>0. Sound(heap, root) /\ heap \in Heaps /\ t \in Nodes /\ heap.level[t] \in Int
  BY DEF IInv, Sound, Heaps, Nodes
<1>n. NodeOf(NewNode(t, i, p), t, i)
  BY <1>0, NodeFields
<1>1. /\ k \in Heaps
      /\ k.index = heap.index \cup {i} /\ k.made = heap.made \cup {i}
      /\ k.bare = heap.bare \cup {i} /\ k.ghosts = heap.ghosts
      /\ k.parent = [heap.parent EXCEPT ![i] = t]
      /\ k.level = [heap.level EXCEPT ![i] = heap.level[t] + 1]
      /\ k.children = heap.children
  BY <1>n DEF NodeOf
<1> HIDE DEF k
<1>2. Made(k)
  BY <1>0, <1>1, Names DEF Sound, Made, Heaps
<1>3. Roots(k, root)
  BY <1>0, <1>1, Names DEF Sound, Roots, Heaps, RootLevel
<1>4. Kept(k, root)
  <2>1. t \in {root, Anchor}
    BY <1>0 DEF Sound, Roots
  <2> QED  BY <1>0, <1>1, <2>1, Names DEF Sound, Kept, Heaps, Made
<1>5. Left(k)
  BY <1>0, <1>1, Names DEF Sound, Left, Heaps
<1>6. Placed(k)
  BY <1>0, <1>1, Names DEF Sound, Placed, Heaps
<1> QED  BY <1>1, <1>2, <1>3, <1>4, <1>5, <1>6 DEF Sound, Grows, k

(* Elsewhere it is a child of the receiver.                                  *)
LEMMA ChildNodeSound ==
  ASSUME IInv, NEW t \in heap.made \cup {Anchor}, NEW i \in Ids \ heap.made,
         NEW p \in Ids \cup {Nil}, t \notin NewNode(t, i, p).bare
  PROVE  LET k == [NewNode(t, i, p) EXCEPT !.children[t] = @ \cup {i}]
         IN  Sound(k, root) /\ Grows(heap, k)
<1> DEFINE n == NewNode(t, i, p)
           k == [n EXCEPT !.children[t] = @ \cup {i}]
<1>0. Sound(heap, root) /\ heap \in Heaps /\ t \in Nodes /\ heap.level[t] \in Int
  BY DEF IInv, Sound, Heaps, Nodes
<1>n. NodeOf(NewNode(t, i, p), t, i)
  BY <1>0, NodeFields
<1>1. /\ n \in Heaps
      /\ n.index = heap.index \cup {i} /\ n.made = heap.made \cup {i}
      /\ n.bare = heap.bare \cup {i} /\ n.ghosts = heap.ghosts
      /\ n.parent = [heap.parent EXCEPT ![i] = t]
      /\ n.level = [heap.level EXCEPT ![i] = heap.level[t] + 1]
      /\ n.children = heap.children
  BY <1>n DEF NodeOf
<1> HIDE DEF n
<1>2. /\ k \in Heaps
      /\ k.index = n.index /\ k.made = n.made /\ k.bare = n.bare /\ k.ghosts = n.ghosts
      /\ k.parent = n.parent /\ k.level = n.level
      /\ k.children = [heap.children EXCEPT ![t] = @ \cup {i}]
  BY <1>0, <1>1 DEF Heaps
<1> HIDE DEF k
<1>3. Made(k)
  <2>1. t \notin heap.bare /\ t # i /\ t \in heap.made \cup {Anchor}
    BY <1>1 DEF n
  <2> QED  BY <1>0, <1>1, <1>2, <2>1, Names DEF Sound, Made, Heaps
<1>4. Roots(k, root)
  BY <1>0, <1>1, <1>2, Names DEF Sound, Roots, Heaps, RootLevel
<1>5. Kept(k, root)
  BY <1>0, <1>1, <1>2, Names DEF Sound, Kept, Heaps, Made
<1>6. Left(k)
  BY <1>0, <1>1, <1>2, Names DEF Sound, Left, Heaps
<1>7. Placed(k)
  BY <1>0, <1>1, <1>2, Names DEF Sound, Placed, Heaps
<1> QED  BY <1>1, <1>2, <1>3, <1>4, <1>5, <1>6, <1>7 DEF Sound, Grows, k, n

(* Unlinked, it changes nobody's place.                                     *)
LEMMA NodeOrders ==
  ASSUME IInv, NEW t \in Nodes, NEW i \in Ids \ heap.made, NEW p \in Ids \cup {Nil}
  PROVE  Ordered(NewNode(t, i, p), root, {})
<1> DEFINE k == NewNode(t, i, p)
<1>0. heap \in Heaps /\ root \in Nodes /\ \A m \in Nodes : i \notin heap.children[m]
  BY DEF IInv, Sound, Made, Heaps, Nodes
<1>n. NodeOf(NewNode(t, i, p), t, i)
  BY <1>0, NodeFields
<1>1. /\ k \in Heaps /\ k.index = heap.index \cup {i} /\ k.ghosts = heap.ghosts
      /\ k.level = [heap.level EXCEPT ![i] = heap.level[t] + 1] /\ k.children = heap.children
  BY <1>n DEF NodeOf
<1> HIDE DEF k
<1>2. Forest(k, root) = Forest(heap, root)
  BY <1>1 DEF Forest, Closure
<1> SUFFICES ASSUME NEW q \in Forest(heap, root),
                    NEW n \in (heap.children[q] \cap k.index) \ heap.ghosts
             PROVE  Fits(k, root, q, n)
  BY <1>1, <1>2 DEF Ordered, k
<1>3. q \in Nodes /\ n \in Nodes /\ n # i /\ n \in heap.index
  BY <1>0, <1>1, ForestHolds, ChildrenTypes, Names
<1>4. q # i
  BY DEF IInv, Sound, Made
<1>5. Fits(heap, root, q, n)
  BY <1>3 DEF IInv, Ordered
<1>6. k.level[q] = heap.level[q] /\ k.level[n] = heap.level[n]
  BY <1>0, <1>1, <1>3, <1>4 DEF Heaps
<1> QED  BY <1>0, <1>1, <1>5, <1>6, FitsStill

(* The child of its parent, at the level it had.                             *)
Adopted(h, k, i, p) ==
    /\ i \in k.children[p] /\ k.level[i] = h.level[i]
    /\ p \in h.index => k.parent[i] = p
    /\ \A m \in Ids \ {p} : h.children[m] \subseteq k.children[m]

(* addToParent does so, whether the parent is there or a ghost.             *)
LEMMA ParentFields ==
  ASSUME NEW h \in Heaps, NEW i \in Ids, NEW p \in Ids, i # p \/ p \in h.index, p # Nil
  PROVE  Adopted(h, AddToParent(h, i, p), i, p)
<1>0. p \in Nodes /\ Ids \subseteq Nodes /\ Anchor \notin Ids
  BY Names
<1>1. CASE p \in h.index
  <2> DEFINE children == [h.children EXCEPT ![p] = @ \cup {i}]
             parent == [h.parent EXCEPT ![i] = p]
             k == [h EXCEPT !.parent = parent, !.children = children]
  <2>1. AddToParent(h, i, p) = k
    BY <1>1 DEF AddToParent
  <2>2. i \in children[p] /\ parent[i] = p /\ \A m \in Ids \ {p} : children[m] = h.children[m]
    BY <1>0 DEF Heaps
  <2> HIDE DEF children, parent
  <2>3. k.children = children /\ k.parent = parent /\ k.level = h.level
    BY DEF Heaps
  <2> HIDE DEF k
  <2> QED  BY <2>1, <2>2, <2>3 DEF Adopted
<1>2. CASE p \notin h.index
  <2> DEFINE children == [m \in Nodes |-> CASE m = p      -> {i}
                                             [] m = Anchor -> h.children[m] \cup {p}
                                             [] OTHER      -> h.children[m]]
             level == [h.level EXCEPT ![p] = 0]
  <2>1. AddToParent(h, i, p) = AddGhost(h, i, p)
    BY <1>2 DEF AddToParent
  <2>2. /\ i \in children[p] /\ level[i] = h.level[i]
        /\ \A m \in Ids \ {p} : children[m] = h.children[m]
    BY <1>0, <1>2 DEF Heaps
  <2>3. AddGhost(h, i, p).children = children /\ AddGhost(h, i, p).level = level
    BY DEF AddGhost, Heaps
  <2> HIDE DEF children, level
  <2> QED  BY <1>2, <2>1, <2>2, <2>3 DEF Adopted
<1> QED  BY <1>1, <1>2

(* Under the parent its data names: no node but the parent has it for a child. *)
LEMMA UnderParentKeeps ==
  ASSUME IInv, UNCHANGED root, NEW t \in heap.made \cup {Anchor}, NEW i \in Ids \ heap.made,
         NEW p \in heap.index \cup {Nil} \cup (Ids \ (heap.made \cup {i})),
         heap.level[t] = RootLevel, p \notin NewNode(t, i, p).bare,
         Returns(AddToParent(NewNode(t, i, p), i, p), "fresh")
  PROVE  IInv' /\ heap.index \subseteq heap'.index
<1> DEFINE n == NewNode(t, i, p)
           a == AddToParent(n, i, p)
<1>0. heap \in Heaps /\ t \in Nodes /\ root \in Nodes /\ p \in Ids \cup {Nil}
  BY DEF IInv, Sound, Heaps, Nodes
<1>n. NodeOf(NewNode(t, i, p), t, i)
  BY <1>0, NodeFields
<1>1. /\ n \in Heaps /\ n.index = heap.index \cup {i} /\ n.made = heap.made \cup {i}
      /\ n.level = [heap.level EXCEPT ![i] = heap.level[t] + 1]
  BY <1>n DEF NodeOf
<1>2. p \in n.index \cup {Nil} \cup (Ids \ n.made) /\ i \in n.index
  BY <1>1
<1>3. Sound(n, root) /\ Grows(heap, n) /\ Ordered(n, root, {})
  BY <1>0, RootNodeSound, NodeOrders
<1>l. n.level[i] = RootLevel + 1
  BY <1>0, <1>1, Names DEF Heaps
<1> HIDE DEF n
<1>4. Sound(a, root) /\ Grows(n, a)
  BY <1>2, <1>3, AddToParentSound DEF n
<1>5. Ordered(a, root, {i})
  <2>1. Ordered(a, root, {} \cup {i})
    BY <1>0, <1>2, <1>3, AddToParentOrders
  <2> QED  BY <2>1
<1>6. Ordered(a, root, {})
  <2>1. CASE p = Nil
    <3>1. Nil \notin n.index
      BY <1>1, <1>0, Names DEF Heaps
    <3>2. a = n
      BY <2>1, <3>1, Zenon DEF AddToParent
    <3> QED  BY <3>2, <1>3
  <2>2. CASE p # Nil
    <3>1. p \in Ids /\ i # p
      BY <1>0, <1>1, <2>2 DEF IInv, Sound, Made
    <3>2. i \in a.children[p] /\ a.level[i] = n.level[i]
      <4>1. n \in Heaps /\ i \in Ids /\ p \in Ids /\ i # p /\ p # Nil
        BY <1>1, <2>2, <3>1
      <4>2. Adopted(n, a, i, p)
        BY <4>1, ParentFields
      <4> QED  BY <4>2 DEF Adopted
    <3>3. \E q \in Ids : i \in a.children[q] /\ a.level[i] \in {a.level[q] + 1, RootLevel + 1}
      BY <1>l, <3>1, <3>2
    <3>4. a \in Heaps
      BY <1>4 DEF Sound
    <3> HIDE DEF a
    <3> QED  BY <1>0, <1>5, <3>3, <3>4, LastOrders
  <2> QED  BY <2>1, <2>2
<1>7. Good(a) /\ Grows(heap, a)
  BY <1>3, <1>4, <1>6 DEF Good, Grows
<1>8. Returns(a, "fresh")
  BY DEF n
<1> HIDE DEF a
<1>9. IInv'
  BY <1>7, <1>8, CallSound DEF Grows
<1> QED  BY <1>7, <1>8, <1>9 DEF Returns, Panics, Grows

(* Under the receiver, one level below it.                                   *)
LEMMA UnderReceiverKeeps ==
  ASSUME IInv, UNCHANGED root, NEW t \in heap.made \cup {Anchor}, NEW i \in Ids \ heap.made,
         NEW p \in Ids \cup {Nil}, t \notin NewNode(t, i, p).bare,
         Returns([NewNode(t, i, p) EXCEPT !.children[t] = @ \cup {i}], "fresh")
  PROVE  IInv' /\ heap.index \subseteq heap'.index
<1> DEFINE n == NewNode(t, i, p)
           c == [n EXCEPT !.children[t] = @ \cup {i}]
<1>0. heap \in Heaps /\ t \in Nodes /\ root \in Nodes /\ t # i /\ i \in Nodes
  BY Names DEF IInv, Sound, Heaps, Nodes
<1>n. NodeOf(NewNode(t, i, p), t, i)
  BY <1>0, NodeFields
<1>1. /\ n \in Heaps /\ n.index = heap.index \cup {i} /\ n.ghosts = heap.ghosts
      /\ n.level = [heap.level EXCEPT ![i] = heap.level[t] + 1] /\ n.children = heap.children
  BY <1>n DEF NodeOf
<1>2. Sound(c, root) /\ Grows(heap, c)
  BY ChildNodeSound
<1>3. Ordered(n, root, {})
  BY <1>0, NodeOrders
<1> HIDE DEF n
<1>4. /\ c \in Heaps /\ c.index = n.index /\ c.ghosts = n.ghosts /\ c.level = n.level
      /\ c.children = [n.children EXCEPT ![t] = @ \cup {i}]
  BY <1>0, <1>1 DEF Heaps
<1> HIDE DEF c
<1>5. \A m \in Nodes : c.children[m] = IF m = t THEN n.children[m] \cup {i} ELSE n.children[m]
  BY <1>1, <1>4 DEF Heaps
<1>6. Links(n, c, t, i)
  BY <1>4, <1>5 DEF Links
<1>7. n.children[i] = {}
  BY <1>1 DEF IInv, Sound, Made
<1>8. Ordered(c, root, {i})
  <2>1. Ordered(c, root, {} \cup {i})
    BY <1>0, <1>1, <1>3, <1>4, <1>6, <1>7, LinkOrders
  <2> QED  BY <2>1
<1>9. Ordered(c, root, {})
  <2>1. \A q \in Nodes : i \in c.children[q] => q = t
    BY <1>1, <1>5 DEF IInv, Sound, Made
  <2>2. c.level[i] = c.level[t] + 1
    BY <1>0, <1>1, <1>4 DEF Heaps
  <2> SUFFICES ASSUME NEW q \in Forest(c, root), i \in c.children[q]
               PROVE  Fits(c, root, q, i)
    BY <1>8 DEF Ordered
  <2>3. q = t
    BY <1>0, <1>4, <2>1, ForestHolds
  <2> QED  BY <2>2, <2>3 DEF Fits, Stands
<1>10. Good(c)
  BY <1>2, <1>9 DEF Good
<1>11. Returns(c, "fresh")
  BY DEF n, c
<1>12. IInv'
  BY <1>2, <1>10, <1>11, CallSound DEF Grows
<1> QED  BY <1>2, <1>11, <1>12 DEF Returns, Panics, Grows

(* Add of new data.                                                         *)
LEMMA AddNewKeeps ==
  ASSUME IInv, NEW t \in Reachable, NEW i \in Ids, NEW p \in Ids \cup {Nil}, AddNew(t, i, p)
  PROVE  IInv' /\ heap.index \subseteq heap'.index
<1> DEFINE n == NewNode(t, i, p)
           a == AddToParent(n, i, p)
           c == [n EXCEPT !.children[t] = @ \cup {i}]
<1>1. UNCHANGED root /\ i \in Ids \ heap.made /\ t \in heap.made \cup {Anchor}
  BY ReachableIsMade DEF AddNew, Call
<1>2. p \in heap.index \cup {Nil} \cup (Ids \ (heap.made \cup {i}))
  <2>1. heap \in Heaps /\ t \in Nodes
    BY <1>1 DEF IInv, Sound, Heaps, Nodes
  <2>n. NodeOf(NewNode(t, i, p), t, i)
    BY <2>1, NodeFields
  <2>2. n.made = heap.made \cup {i}
    BY <2>n DEF NodeOf
  <2> QED  BY <2>2 DEF AddNew
<1>3. CASE Panics("fresh")
  BY <1>1, <1>3, PanicKeeps DEF Panics
<1>4. CASE heap.level[t] = RootLevel /\ p \notin n.bare /\ Returns(a, "fresh")
  BY <1>1, <1>2, <1>4, UnderParentKeeps
<1>5. CASE t \notin n.bare /\ Returns(c, "fresh")
  BY <1>1, <1>5, UnderReceiverKeeps
<1> QED  BY <1>3, <1>4, <1>5 DEF AddNew

(* What Add does on a node that is there: it leaves a sound heap in which     *)
(* nothing left the index, or panics.                                        *)
Settles == IInv' /\ heap.index \subseteq heap'.index

(* What returns is good and holds all that was in the index.                *)
LEMMA Settled ==
  ASSUME IInv, UNCHANGED root, NEW h,
         ~Overflowed(h) => Good(h) /\ Grows(heap, h),
         Returns(h, "again")
  PROVE  Settles
<1>1. IInv'
  BY CallSound DEF Grows
<1>2. CASE Overflowed(h)
  BY <1>1, <1>2 DEF Settles, Returns, Panics
<1>3. CASE ~Overflowed(h)
  BY <1>1, <1>3 DEF Settles, Returns, Grows
<1> QED  BY <1>2, <1>3

(* A panic leaves everything as it was.                                     *)
LEMMA PanicSettles ==
  ASSUME IInv, UNCHANGED root, Panics("again")
  PROVE  Settles
<1>1. IInv'
  BY PanicKeeps
<1> QED  BY <1>1 DEF Settles, Panics

(* unGhost of i, the only node whose place has to be looked at.               *)
LEMMA UnGhostKeeps ==
  ASSUME IInv, UNCHANGED root, NEW h, Sound(h, root), Grows(heap, h), NEW i \in h.index,
         i \notin h.ghosts, NEW p \in h.index \cup {Nil} \cup (Ids \ h.made),
         Ordered(h, root, {i}), p = Nil => Ordered(h, root, {}),
         p \in h.index \/ p = Nil \/ HasParent(h, i),
         UnGhost(h, i, p)
  PROVE  Settles
<1> DEFINE b == [h EXCEPT !.pid[i] = p, !.ghosts = @ \ {i}]
           g == AddToParent(b, i, p)
           k == [g EXCEPT !.children[Anchor] = @ \ {i}]
           l == k.level[k.parent[i]] + 1
           s == SetLevel(k, {i}, l)
<1>1. IF p = Nil THEN Returns(g, "again")
      ELSE IF p \in h.bare \/ k.parent[i] = Nil THEN Panics("again") ELSE Returns(s, "again")
  BY DEF UnGhost
<1>0. h \in Heaps /\ root \in Nodes /\ i \in Ids
  BY Names DEF IInv, Sound, Heaps, Nodes
<1>2. /\ b \in Heaps
      /\ b.index = h.index /\ b.made = h.made /\ b.bare = h.bare /\ b.ghosts = h.ghosts
      /\ b.children = h.children /\ b.parent = h.parent /\ b.level = h.level
  BY <1>0 DEF Heaps
<1> HIDE DEF b, g, k, s, l
<1>3. Sound(b, root) /\ Grows(heap, b)
  BY <1>2 DEF Sound, Made, Roots, Kept, Left, Placed, Grows
<1>4. i \in b.index /\ p \in b.index \cup {Nil} \cup (Ids \ b.made)
  BY <1>2
<1>o. \A X : Ordered(h, root, X) => Ordered(b, root, X)
  BY <1>2 DEF Ordered, Forest, Closure, Fits, Stands, Excused, Torn, Below, HasParent
<1>5. CASE p = Nil
  <2>1. Nil \notin b.index
    BY <1>2, Names DEF Heaps
  <2>2. g = b
    BY <1>5, <2>1, Zenon DEF g, AddToParent
  <2>3. Good(g) /\ Grows(heap, g)
    BY <1>3, <1>5, <1>o, <2>2 DEF Good
  <2>4. Returns(g, "again")
    BY <1>1, <1>5
  <2> QED  BY <2>3, <2>4, Settled
<1>6. CASE p # Nil /\ (p \in h.bare \/ k.parent[i] = Nil)
  <2>1. Panics("again")
    BY <1>1, <1>6
  <2> QED  BY <2>1, PanicSettles
<1>7. CASE p # Nil /\ p \notin h.bare /\ k.parent[i] # Nil
  <2>1. Sound(g, root) /\ Grows(b, g)
    BY <1>2, <1>3, <1>4, <1>7, AddToParentSound DEF g
  <2>2. Ordered(g, root, {i})
    <3>1. Ordered(b, root, {i})
      BY <1>o
    <3>2. Ordered(g, root, {i} \cup {i})
      BY <1>0, <1>3, <1>4, <3>1, AddToParentOrders DEF g
    <3> QED  BY <3>2
  <2>p. p \in Ids /\ p \in Nodes /\ p # Anchor /\ i \in Nodes /\ Anchor \in Nodes
    BY <1>0, <1>7, Names DEF Heaps, Nodes
  <2>3. Grows(heap, g)
    BY <1>3, <2>1 DEF Grows
  <2>4. /\ k \in Heaps
        /\ k.index = g.index /\ k.made = g.made /\ k.bare = g.bare /\ k.ghosts = g.ghosts
        /\ k.parent = g.parent /\ k.level = g.level
        /\ k.children = [g.children EXCEPT ![Anchor] = @ \ {i}]
    BY <2>1, <2>p DEF Sound, Heaps, k
  <2>5. Made(k)
    BY <2>p, <2>4, <2>1, Names DEF Sound, Made, Heaps
  <2>6. Roots(k, root) /\ Left(k)
    BY <2>p, <2>4, <2>1 DEF Sound, Roots, Left, Heaps
  <2>7. Kept(k, root)
    BY <2>p, <2>4, <2>1, Names DEF Sound, Kept, Heaps
  <2>c. Adopted(b, g, i, p)
    <3>1. i # p \/ p \in b.index
      BY <1>4
    <3> QED  BY <1>0, <1>2, <1>7, <2>p, <3>1, ParentFields DEF g
  <2>i. i \in k.children[p] /\ \A m \in Ids : k.children[m] = g.children[m]
    <3>1. g.children \in [Nodes -> SUBSET Ids]
      BY <2>1 DEF Sound, Heaps
    <3> QED  BY <2>4, <2>c, <2>p, <3>1, Names DEF Adopted
  <2>8. Placed(k)
    <3>1. \A m \in Nodes : m # Anchor => k.children[m] = g.children[m]
      BY <2>i DEF Nodes
    <3>2. k.index \subseteq Ids /\ \A n \in Ids : k.parent[n] # Nil => k.parent[n] \in Nodes
      BY <2>4 DEF Heaps
    <3>3. \A n \in Nodes \ {i} : \A m \in Nodes : n \in g.children[m] => n \in k.children[m]
      BY <2>1, <2>4 DEF Sound, Heaps
    <3>4. \A n \in k.index \ k.bare : \E q \in Nodes : n \in k.children[q]
      BY <2>1, <2>4, <2>i, <2>p, <3>2, <3>3, Names DEF Sound, Placed
    <3> QED  BY <2>1, <2>4, <3>1, <3>2, <3>4 DEF Sound, Placed
  <2>9. Sound(k, root) /\ Grows(heap, k)
    BY <2>3, <2>4, <2>5, <2>6, <2>7, <2>8 DEF Sound, Grows
  <2>10. Ordered(k, root, {i})
    BY <1>0, <2>1, <2>2, <2>4, UnlinkOrders DEF Sound
  <2>11. ASSUME ~Overflowed(s) PROVE Good(s) /\ Grows(heap, s)
    <3>1. k.parent[i] \in Nodes
      BY <1>0, <1>7, <2>4 DEF Heaps
    <3>2. l \in Int /\ l > RootLevel
      BY <3>1, <2>4, <2>6 DEF Heaps, Roots, RootLevel, l
    <3>3. {i} \in SUBSET Nodes /\ {i} \in SUBSET ({i} \cup k.children[i])
      BY <2>p
    <3>r. Relevelled(k, s, root, i, l)
      BY <1>0, <2>4, <2>10, <2>11, <3>2, <3>3, SetLevelOrders DEF s
    <3>4. /\ Ordered(s, root, {i}) /\ s.level[i] = l
          /\ \A q \in Ids : i \in k.children[q] => s.level[q] = k.level[q]
      BY <3>r DEF Relevelled
    <3>5. Sound(s, root) /\ Grows(k, s)
      BY <2>9, <2>11, <3>2, <3>3, SetLevelSound DEF s
    <3>6. s \in Heaps /\ s.children = k.children
      <4>1. LevelsOnly(k, s, l)
        BY <2>4, <3>2, <3>3, SetLevelFields DEF s
      <4> QED  BY <4>1 DEF LevelsOnly
    <3>7. Torn(s, i) \/ \E q \in Ids : i \in s.children[q] /\ s.level[i] = s.level[q] + 1
      <4>1. CASE p \in h.index
        <5>1. k.parent[i] = p
          BY <4>1, <1>2, <2>4, <2>c DEF Adopted
        <5>2. s.level[i] = s.level[p] + 1
          BY <2>i, <2>p, <3>4, <5>1 DEF l
        <5> QED  BY <2>i, <2>p, <3>6, <5>2
      <4>2. CASE p \notin h.index
        <5>1. p \notin h.made /\ HasParent(h, i)
          BY <4>2, <1>7
        <5>2. PICK q \in Ids : i \in h.children[q]
          BY <5>1 DEF HasParent
        <5>3. q # p
          BY <2>p, <5>1, <5>2 DEF Sound, Made
        <5>4. i \in k.children[q]
          BY <1>2, <2>c, <2>i, <5>2, <5>3 DEF Adopted
        <5> QED  BY <2>i, <2>p, <3>6, <5>3, <5>4 DEF Torn
      <4> QED  BY <4>1, <4>2
    <3>8. Ordered(s, root, {})
      BY <1>0, <3>4, <3>6, <3>7, LastOrders
    <3> QED  BY <2>9, <3>5, <3>8 DEF Good, Grows
  <2>12. Returns(s, "again")
    BY <1>1, <1>7
  <2> QED  BY <2>11, <2>12, Settled
<1> QED  BY <1>5, <1>6, <1>7

(* addToParent leaves the parent in the index, and only it may be a new ghost. *)
LEMMA MovedFields ==
  ASSUME NEW h \in Heaps, NEW i, NEW p \in Ids
  PROVE  /\ p \in AddToParent(h, i, p).index
         /\ AddToParent(h, i, p).ghosts \cap h.index \subseteq h.ghosts
         /\ h.ghosts \subseteq AddToParent(h, i, p).ghosts
<1>1. p # Nil
  BY Names
<1>2. CASE p \in h.index
  <2>1. AddToParent(h, i, p) = [h EXCEPT !.parent[i] = p, !.children[p] = @ \cup {i}]
    BY <1>1, <1>2 DEF AddToParent
  <2> QED  BY <2>1, <1>2 DEF Heaps
<1>3. CASE p \notin h.index
  <2>1. AddToParent(h, i, p) = AddGhost(h, i, p)
    BY <1>1, <1>3 DEF AddToParent
  <2>2. AddGhost(h, i, p).index = h.index \cup {p}
        /\ AddGhost(h, i, p).ghosts = h.ghosts \cup {p}
    BY DEF AddGhost, Heaps
  <2> QED  BY <2>1, <2>2, <1>3
<1> QED  BY <1>2, <1>3

(* What is in order is so without i.                                        *)
LEMMA OrderedBut ==
  ASSUME NEW h, NEW r, NEW i, Ordered(h, r, {})
  PROVE  Ordered(h, r, {i})
  BY DEF Ordered

(* setLevel on the receiver, whose child i is now.                           *)
Under(i, t) == [heap EXCEPT !.parent[i] = t, !.children[t] = @ \cup {i}]

(* What setLevel leaves of it.                                              *)
Received(s, i) ==
    /\ Good(s) /\ Grows(heap, s) /\ HasParent(s, i)
    /\ s.ghosts = heap.ghosts /\ s.index = heap.index /\ s.made = heap.made

(* Everything is in order when setLevel on the receiver returns.            *)
LEMMA ReceiverOrders ==
  ASSUME IInv, NEW t \in Ids, t \in heap.made, t \notin heap.bare, NEW i \in heap.index,
         Under(i, t).parent[t] # Nil, NEW l, l = Under(i, t).level[Under(i, t).parent[t]] + 1,
         ~Overflowed(SetLevel(Under(i, t), {t}, l))
  PROVE  Received(SetLevel(Under(i, t), {t}, l), i)
<1> DEFINE under == Under(i, t)
           s == SetLevel(under, {t}, l)
<1>0. /\ Sound(heap, root) /\ heap \in Heaps /\ root \in Nodes /\ t \in Nodes
      /\ Ordered(heap, root, {}) /\ i \in Ids
  BY Names DEF IInv, Sound, Heaps, Nodes
<1>1. Sound(under, root) /\ Grows(heap, under)
  BY <1>0, LinkSound DEF Under
<1>2. Ordered(under, root, {i}) /\ i \in under.children[t]
  <2>1. Ordered(under, root, {} \cup {i}) /\ i \in under.children[t]
    BY <1>0, ParentOrders DEF Under
  <2> QED  BY <2>1
<1>3. under.ghosts = heap.ghosts /\ under.index = heap.index /\ under.made = heap.made
      /\ under.bare = heap.bare /\ under \in Heaps
  BY <1>0, <1>1 DEF Sound, Heaps, Under
<1>l. l = under.level[under.parent[t]] + 1 /\ under.parent[t] # Nil
  OBVIOUS
<1>o. ~Overflowed(SetLevel(under, {t}, l))
  OBVIOUS
<1> HIDE DEF under
<1>4. under.parent[t] \in Ids
  <2>1. t \in Ids \ under.bare /\ under.parent \in [Ids -> Nodes \cup {Nil}]
    BY <1>3 DEF Heaps
  <2> QED  BY <1>1, <1>l, <2>1 DEF Sound, Placed, Nodes
<1>5. l \in Int /\ l > RootLevel
  <2>1. under.parent[t] \in Nodes
    BY <1>4, Names
  <2>2. under.level[under.parent[t]] \in Int /\ under.level[under.parent[t]] >= RootLevel
    BY <1>1, <1>3, <2>1 DEF Sound, Heaps, Roots
  <2> QED  BY <1>l, <2>2 DEF RootLevel
<1>6. {t} \in SUBSET Nodes /\ {i} \in SUBSET ({t} \cup under.children[t])
  BY <1>0, <1>2
<1> HIDE DEF s
<1>7. Sound(s, root) /\ Grows(under, s)
  BY <1>1, <1>5, <1>6, <1>o, SetLevelSound DEF s
<1>8. /\ s \in Heaps /\ s.ghosts = under.ghosts /\ s.index = under.index /\ s.made = under.made
      /\ s.children = under.children
  <2>1. LevelsOnly(under, s, l)
    BY <1>3, <1>5, <1>6, SetLevelFields DEF s
  <2> QED  BY <2>1 DEF LevelsOnly
<1>r. Relevelled(under, s, root, t, l)
  BY <1>0, <1>2, <1>3, <1>5, <1>6, <1>o, SetLevelOrders DEF s
<1>9. /\ Ordered(s, root, {t}) /\ s.level[t] = l
      /\ \A q \in Ids : t \in under.children[q] => s.level[q] = under.level[q]
  BY <1>r DEF Relevelled
<1>10. \/ t \notin s.index \ s.ghosts
       \/ \E q \in Ids : t \in s.children[q] /\ s.level[t] = s.level[q] + 1
  <2> SUFFICES ASSUME t \in under.index \ under.ghosts
               PROVE  \E q \in Ids : t \in s.children[q] /\ s.level[t] = s.level[q] + 1
    BY <1>8
  <2>1. t \in under.children[under.parent[t]]
    BY <1>1, <1>3, <1>l DEF Sound, Placed
  <2> QED  BY <1>4, <1>8, <1>9, <1>l, <2>1
<1>11. Ordered(s, root, {})
  BY <1>0, <1>8, <1>9, <1>10, LastOrders
<1>12. HasParent(s, i)
  BY <1>2, <1>8 DEF HasParent
<1>13. Good(s) /\ Grows(heap, s)
  BY <1>1, <1>7, <1>11 DEF Good, Grows
<1> QED  BY <1>3, <1>8, <1>12, <1>13 DEF s, under, Received

(* Add of data that is there.                                               *)
LEMMA AddAgainKeeps ==
  ASSUME IInv, NEW t \in Reachable, NEW i \in Ids, NEW p \in Ids \cup {Nil},
         AddAgain(t, i, p)
  PROVE  Settles
<1> DEFINE under == [heap EXCEPT !.parent[i] = t, !.children[t] = @ \cup {i}]
           moved == AddToParent(heap, i, p)
           l == under.level[under.parent[t]] + 1
           s == SetLevel(under, {t}, l)
           After(h) == IF i \in heap.ghosts THEN Returns(h, "again") ELSE UnGhost(h, i, p)
<1>1. /\ UNCHANGED root /\ i \in heap.index /\ t \in heap.made \cup {Anchor}
      /\ p \in heap.index \cup {Nil} \cup (Ids \ heap.made)
  BY ReachableIsMade DEF AddAgain, Call
<1>2. \/ Panics("again")
      \/ p \notin heap.bare /\ p # Nil /\ After(moved)
      \/ (p = Nil \/ t # Anchor) /\ i \in heap.children[t] /\ After(heap)
      \/ t \notin heap.bare /\ t # Anchor /\ under.parent[t] # Nil /\ ~Overflowed(s) /\ After(s)
  BY DEF AddAgain
<1>3. Good(heap) /\ Grows(heap, heap) /\ heap \in Heaps /\ root \in Nodes
  BY Names DEF IInv, Grows, Good, Sound, Heaps, Nodes
<1>4. ASSUME NEW h, Sound(h, root), Grows(heap, h), h.ghosts \cap heap.index \subseteq heap.ghosts,
             p \in h.index \cup {Nil} \cup (Ids \ h.made), Ordered(h, root, {i}),
             i \in heap.ghosts \/ p = Nil => Ordered(h, root, {}),
             p \in h.index \/ p = Nil \/ HasParent(h, i), After(h)
      PROVE  Settles
  <2>1. CASE i \in heap.ghosts
    <3>1. Returns(h, "again")
      BY <1>4, <2>1
    <3>2. Good(h)
      BY <1>4, <2>1 DEF Good
    <3> QED  BY <3>1, <3>2, <1>1, <1>4, Settled
  <2>2. CASE i \notin heap.ghosts
    <3>1. UnGhost(h, i, p)
      BY <1>4, <2>2
    <3>2. i \in h.index /\ i \notin h.ghosts
      BY <1>1, <1>4, <2>2 DEF Grows
    <3> QED  BY <3>1, <3>2, <1>1, <1>4, UnGhostKeeps
  <2> QED  BY <2>1, <2>2
<1> HIDE DEF After
<1>5. CASE Panics("again")
  BY <1>1, <1>5, PanicSettles
<1>6. CASE p \notin heap.bare /\ p # Nil /\ After(moved)
  <2>1. Sound(moved, root) /\ Grows(heap, moved)
    BY <1>1, <1>3, <1>6, AddToParentSound DEF Good
  <2>2. /\ p \in moved.index /\ moved.ghosts \cap heap.index \subseteq heap.ghosts
        /\ heap.ghosts \subseteq moved.ghosts
    <3>1. p \in Ids
      BY <1>1, <1>3, <1>6 DEF Heaps
    <3> QED  BY <1>3, <3>1, MovedFields
  <2>3. Ordered(moved, root, {i})
    <3>1. Ordered(moved, root, {} \cup {i})
      BY <1>1, <1>3, AddToParentOrders DEF Good
    <3> QED  BY <3>1
  <2> HIDE DEF moved
  <2>4. i \in heap.ghosts => Ordered(moved, root, {})
    BY <1>3, <2>1, <2>2, <2>3, LastOrders DEF Sound
  <2> QED  BY <1>4, <1>6, <2>1, <2>2, <2>3, <2>4
<1>7. CASE (p = Nil \/ t # Anchor) /\ i \in heap.children[t] /\ After(heap)
  <2>1. p = Nil \/ HasParent(heap, i)
    BY <1>1, <1>3, <1>7 DEF HasParent, Heaps
  <2>2. Ordered(heap, root, {}) /\ Ordered(heap, root, {i})
    BY <1>3, OrderedBut DEF Good
  <2> QED  BY <1>1, <1>3, <1>4, <1>7, <2>1, <2>2 DEF Good
<1>8. CASE t \notin heap.bare /\ t # Anchor /\ under.parent[t] # Nil /\ ~Overflowed(s) /\ After(s)
  <2>1. t \in Ids /\ t \in heap.made
    BY <1>1, <1>3, <1>8 DEF Heaps
  <2> HIDE DEF under, l, s
  <2>2. /\ under = Under(i, t) /\ under.parent[t] # Nil
        /\ l = under.level[under.parent[t]] + 1
        /\ s = SetLevel(under, {t}, l) /\ ~Overflowed(s)
    BY <1>8 DEF under, l, s, Under
  <2>r. Received(s, i)
    <3>1. /\ Under(i, t).parent[t] # Nil
          /\ l = Under(i, t).level[Under(i, t).parent[t]] + 1
          /\ s = SetLevel(Under(i, t), {t}, l) /\ ~Overflowed(SetLevel(Under(i, t), {t}, l))
      BY <2>2
    <3> QED  BY <1>1, <1>8, <2>1, <3>1, ReceiverOrders
  <2>3. /\ Good(s) /\ Grows(heap, s) /\ HasParent(s, i)
        /\ s.ghosts = heap.ghosts /\ s.index = heap.index /\ s.made = heap.made
    BY <2>r DEF Received
  <2>4. Ordered(s, root, {}) /\ Ordered(s, root, {i})
    BY <2>3, OrderedBut DEF Good
  <2> QED  BY <1>1, <1>4, <1>8, <2>3, <2>4 DEF Good
<1> QED  BY <1>2, <1>5, <1>6, <1>7, <1>8

-----------------------------------------------------------------------------
(* Remove.                                                                  *)

(* What Remove changes.                                                     *)
LEMMA RemovedFields ==
  ASSUME NEW h \in Heaps, NEW t \in Nodes
  PROVE  Rest(h, Removed(h, t), (Below(h, t) \ {Anchor}) \ h.ghosts)
<1> DEFINE gone == (Below(h, t) \ {Anchor}) \ h.ghosts
           children == [n \in Nodes |-> h.children[n] \ {c \in gone : h.parent[c] = n}]
           k == [h EXCEPT !.index = @ \ gone, !.children = children]
<1>1. {n \in Below(h, t) \ {Anchor} : n \notin h.ghosts} = gone
  OBVIOUS
<1>2. Removed(h, t) = k
  BY <1>1 DEF Removed
<1>3. children \in [Nodes -> SUBSET Ids]
  BY DEF Heaps
<1> HIDE DEF gone, children
<1>4. /\ k \in Heaps /\ k.index = h.index \ gone
      /\ k.made = h.made /\ k.bare = h.bare /\ k.ghosts = h.ghosts
      /\ k.parent = h.parent /\ k.level = h.level /\ k.children = children
  BY <1>3 DEF Heaps
<1> QED  BY <1>2, <1>4 DEF gone, children, Rest

(* A node that stays in the index keeps its parent there.                     *)
Stay(h, k, r) ==
    \A n \in (h.index \cap k.index) \ h.ghosts :
        h.parent[n] \in h.index \ {r} => h.parent[n] \in k.index

(* Remove keeps links and levels, and takes the children of what it takes.  *)
LEMMA RemovedSound ==
  ASSUME NEW h, NEW r \in Nodes, Sound(h, r), Ordered(h, r, {}), NEW t \in Nodes
  PROVE  /\ Sound(Removed(h, t), r) /\ Ordered(Removed(h, t), r, {})
         /\ Removed(h, t).made = h.made /\ Stay(h, Removed(h, t), r)
<1> DEFINE k == Removed(h, t)
           gone == (Below(h, t) \ {Anchor}) \ h.ghosts
<1>0. h \in Heaps
  BY DEF Sound
<1>f. Rest(h, k, gone)
  BY <1>0, RemovedFields
<1> HIDE DEF k
<1>1. /\ k \in Heaps
      /\ k.index = h.index \ gone
      /\ k.made = h.made /\ k.bare = h.bare /\ k.ghosts = h.ghosts
      /\ k.parent = h.parent /\ k.level = h.level
      /\ k.children = [n \in Nodes |-> h.children[n] \ {c \in gone : h.parent[c] = n}]
  BY <1>f DEF Rest
<1>2. \A n \in Below(h, t) : h.children[n] \subseteq Below(h, t)
  BY <1>0, BelowHolds
<1>c. \A n \in Nodes : /\ k.children[n] \subseteq h.children[n]
                      /\ \A c \in h.children[n] : (c \in gone /\ h.parent[c] = n) \/ c \in k.children[n]
  BY <1>1
<1>o. Ordered(k, r, {})
  BY <1>0, <1>1, <1>f, RemovedOrders
<1>i. h.index \subseteq Ids
  BY <1>0 DEF Heaps
<1>3. Made(k)
  BY <1>0, <1>1 DEF Sound, Made, Heaps, Nodes
<1>4. Roots(k, r)
  BY <1>1 DEF Sound, Roots
<1>5. Kept(k, r)
  BY <1>0, <1>1, Names DEF Sound, Kept, Heaps
<1>6. Left(k)
  BY <1>0, <1>1 DEF Sound, Left, Heaps
<1>7. Stay(h, k, r)
  <2> SUFFICES ASSUME NEW n \in (h.index \cap k.index) \ h.ghosts, NEW q,
                      q = h.parent[n], q \in h.index \ {r}, q \in gone
               PROVE  FALSE
    BY <1>1 DEF Stay
  <2>1. n \in h.children[q]
    BY DEF Sound, Kept
  <2>2. n \in Below(h, t) /\ n # Anchor
    BY <1>0, <1>2, <2>1, Names DEF Heaps
  <2>3. n \in gone
    BY <2>2
  <2> QED  BY <2>3, <1>1
<1>8. Placed(k)
  <2>1. \A n \in Ids : h.parent[n] # Nil => h.parent[n] \in Nodes
    BY <1>0 DEF Heaps
  <2>2. \A n \in k.index : n \in h.index /\ n \notin gone /\ n \in Ids
    BY <1>1, <1>i
  <2> HIDE DEF gone
  <2>3. \A n \in k.index \ k.bare : \E q \in Nodes : n \in k.children[q]
    BY <1>1, <1>c, <2>2 DEF Sound, Placed
  <2>4. \A n \in (k.index \ k.ghosts) \ k.bare :
          k.parent[n] # Nil => n \in k.children[k.parent[n]]
    BY <1>1, <1>c, <2>1, <2>2 DEF Sound, Placed
  <2>5. \A n \in Ids \ k.bare : k.parent[n] # Anchor
    BY <1>1 DEF Sound, Placed
  <2> QED  BY <2>3, <2>4, <2>5 DEF Placed
<1> QED  BY <1>1, <1>3, <1>4, <1>5, <1>6, <1>7, <1>8, <1>o DEF Sound, k

(* Remove, RemoveChild and Clear.                                           *)
LEMMA RemoveKeeps ==
  ASSUME IInv, UNCHANGED root, NEW t \in Nodes, RemoveNode(t)
  PROVE  IInv' /\ (heap' = heap \/ Stay(heap, heap', root))
<1>1. Returns(Removed(heap, t), "remove") \/ Panics("remove")
  BY DEF RemoveNode
<1>0. root \in Nodes
  BY Names DEF IInv, Sound, Heaps, Nodes
<1>2. Good(Removed(heap, t)) /\ Removed(heap, t).made = heap.made
      /\ Stay(heap, Removed(heap, t), root)
  BY <1>0, RemovedSound DEF IInv, Good
<1>3. IInv'
  BY <1>1, <1>2, CallSound, PanicKeeps
<1> QED  BY <1>1, <1>2, <1>3 DEF Returns, Panics

-----------------------------------------------------------------------------
(* TreeOf.                                                                  *)

(* The nodes of the data before they are linked.                            *)
LEMMA UnlinkedFields ==
  ASSUME NEW D \in SUBSET Ids, NEW pid \in [D -> Ids \cup {Nil}]
  PROVE  LET u    == Unlinked(D, pid)
             tops == {d \in D : pid[d] = Nil}
         IN  /\ u \in Heaps
             /\ u.index = D /\ u.made = D /\ u.bare = {} /\ u.ghosts = {}
             /\ \A n \in Nodes : u.children[n] = IF n = Anchor THEN tops ELSE {}
             /\ \A n \in Ids : u.parent[n] = Nil
             /\ \A n \in D : u.pid[n] = pid[n]
             /\ \A n \in Nodes : u.level[n] >= RootLevel
             /\ \A n \in Nodes : u.level[n] = RootLevel => n = Anchor
             /\ \A n \in Ids \ tops : u.level[n] = 0
<1> DEFINE tops     == {d \in D : pid[d] = Nil}
           children == [n \in Nodes |-> IF n = Anchor THEN tops ELSE {}]
           parent   == [n \in Ids |-> Nil]
           all      == [n \in Ids |-> IF n \in D THEN pid[n] ELSE Nil]
           Level(n) == CASE n = Anchor -> RootLevel [] n \in tops -> 1 [] OTHER -> 0
           level    == [n \in Nodes |-> Level(n)]
           u == [index |-> D, made |-> D, bare |-> {}, ghosts |-> {}, children |-> children,
                 parent |-> parent, pid |-> all, level |-> level]
<1>1. Unlinked(D, pid) = u
  BY DEF Unlinked
<1>2. \A n \in Nodes : Level(n) \in Int /\ Level(n) >= RootLevel
                         /\ (Level(n) = RootLevel => n = Anchor)
                         /\ (n \in Ids \ tops => Level(n) = 0)
  <2> SUFFICES ASSUME NEW n \in Nodes
               PROVE  \/ Level(n) = RootLevel /\ n = Anchor
                      \/ Level(n) = 1 /\ n \in tops
                      \/ Level(n) = 0
    BY Names DEF RootLevel
  <2>1. CASE n = Anchor
    <3>1. Anchor \notin tops
      BY Names
    <3> QED  BY <2>1, <3>1
  <2>2. CASE n # Anchor /\ n \in tops
    BY <2>2
  <2>3. CASE n # Anchor /\ n \notin tops
    BY <2>3
  <2> QED  BY <2>1, <2>2, <2>3
<1> HIDE DEF Level
<1>3. /\ children \in [Nodes -> SUBSET Ids] /\ parent \in [Ids -> Nodes \cup {Nil}]
      /\ all \in [Ids -> Ids \cup {Nil}] /\ level \in [Nodes -> Int]
  BY <1>2
<1>4. /\ \A n \in Nodes : children[n] = IF n = Anchor THEN tops ELSE {}
      /\ \A n \in Ids : parent[n] = Nil
      /\ \A n \in D : all[n] = pid[n]
      /\ \A n \in Nodes : level[n] = Level(n)
  OBVIOUS
<1> HIDE DEF children, parent, all, level
<1>5. /\ u \in Heaps
      /\ u.index = D /\ u.made = D /\ u.bare = {} /\ u.ghosts = {}
      /\ u.children = children /\ u.parent = parent /\ u.pid = all /\ u.level = level
  BY <1>3 DEF Heaps
<1> HIDE DEF u, tops
<1> QED  BY <1>1, <1>2, <1>4, <1>5, Names DEF tops

(* The links made, h, from the nodes, u.                                    *)
LinkedFrom(u, h, first, ghosts, orphans) ==
    /\ h \in Heaps
    /\ h.index = u.index \cup ghosts /\ h.made = u.made \cup ghosts
    /\ h.bare = u.bare /\ h.ghosts = ghosts
    /\ \A n \in Nodes : h.children[n] = IF n = Anchor THEN u.children[n] \cup ghosts
                                         ELSE {d \in orphans : u.pid[d] = n}
    /\ \A n \in Ids : h.parent[n] = IF n \in orphans \ first THEN u.pid[n] ELSE u.parent[n]
    /\ h.level = u.level

(* What linking changes.                                                    *)
LEMMA LinkedFields ==
  ASSUME NEW u \in Heaps, NEW first,
         NEW ghosts \in SUBSET Ids, ghosts = {u.pid[d] : d \in first},
         NEW orphans, orphans = {d \in u.index : u.pid[d] # Nil}
  PROVE  LinkedFrom(u, Linked(u, first), first, ghosts, orphans)
<1> DEFINE children == [n \in Nodes |-> IF n = Anchor THEN u.children[n] \cup ghosts
                                        ELSE {d \in orphans : u.pid[d] = n}]
           parent   == [n \in Ids |-> IF n \in orphans \ first THEN u.pid[n] ELSE u.parent[n]]
           h == [u EXCEPT !.index = @ \cup ghosts, !.made = @ \cup ghosts, !.ghosts = ghosts,
                          !.children = children, !.parent = parent]
<1>1. Linked(u, first) = h
  BY DEF Linked
<1>2. children \in [Nodes -> SUBSET Ids] /\ parent \in [Ids -> Nodes \cup {Nil}]
  BY Names DEF Heaps
<1>3. /\ \A n \in Nodes : children[n] = IF n = Anchor THEN u.children[n] \cup ghosts
                                         ELSE {d \in orphans : u.pid[d] = n}
      /\ \A n \in Ids : parent[n] = IF n \in orphans \ first THEN u.pid[n] ELSE u.parent[n]
  OBVIOUS
<1> HIDE DEF children, parent
<1>4. /\ h \in Heaps
      /\ h.index = u.index \cup ghosts /\ h.made = u.made \cup ghosts
      /\ h.bare = u.bare /\ h.ghosts = ghosts
      /\ h.children = children /\ h.parent = parent /\ h.level = u.level
  BY <1>2 DEF Heaps
<1> HIDE DEF h
<1> QED  BY <1>1, <1>3, <1>4 DEF LinkedFrom

(* What TreeOf made before it sets the levels: every node is a child of one   *)
(* node only, and has no level unless it is a top of the forest or a ghost.  *)
Formed(h) ==
    /\ h \in Heaps /\ Made(h) /\ Left(h) /\ Placed(h)
    /\ \A n \in Nodes : h.level[n] >= RootLevel
    /\ \A n \in Nodes : h.level[n] = RootLevel => n = Anchor
    /\ \A m, n \in Nodes : m # n => h.children[m] \cap h.children[n] = {}
    /\ \A m \in Ids : \A c \in h.children[m] : h.level[c] = 0

(* The links TreeOf makes are such.                                         *)
LEMMA FormsSound ==
  ASSUME NEW D \in SUBSET Ids, NEW pid \in [D -> Ids \cup {Nil}],
         NEW first \in FirstChildren(D, pid), NEW r
  PROVE  /\ Formed(Linked(Unlinked(D, pid), first))
         /\ Kept(Linked(Unlinked(D, pid), first), r)
<1> DEFINE tops    == {d \in D : pid[d] = Nil}
           ghosts  == {pid[d] : d \in first}
           orphans == {d \in D : pid[d] # Nil}
           u       == Unlinked(D, pid)
           h       == Linked(u, first)
<1>1. first \subseteq D /\ (\A d \in first : pid[d] \in Ids \ D)
  BY DEF FirstChildren
<1>2. \A d \in orphans : pid[d] \in Ids /\ pid[d] \in D \cup ghosts
  <2>1. ghosts = {pid[d] : d \in D} \ (D \cup {Nil})
    BY DEF FirstChildren
  <2> QED  BY <2>1
<1>3. /\ u \in Heaps
      /\ u.index = D /\ u.made = D /\ u.bare = {} /\ u.ghosts = {}
      /\ \A n \in Nodes : u.children[n] = IF n = Anchor THEN tops ELSE {}
      /\ \A n \in Ids : u.parent[n] = Nil
      /\ \A n \in D : u.pid[n] = pid[n]
      /\ \A n \in Nodes : u.level[n] >= RootLevel
      /\ \A n \in Nodes : u.level[n] = RootLevel => n = Anchor
      /\ \A n \in Ids \ tops : u.level[n] = 0
  BY UnlinkedFields
<1> HIDE DEF u
<1>4. ghosts = {u.pid[d] : d \in first} /\ ghosts \subseteq Ids
      /\ orphans = {d \in u.index : u.pid[d] # Nil}
  BY <1>1, <1>3
<1>5. LinkedFrom(u, h, first, ghosts, orphans)
  <2> HIDE DEF ghosts, orphans
  <2> QED  BY <1>3, <1>4, LinkedFields
<1> HIDE DEF h, ghosts
<1>6. \A n \in Ids : n # Anchor /\ n \in Nodes
  BY Names DEF Nodes
<1>7. /\ h.index = D \cup ghosts /\ h.made = D \cup ghosts /\ h.bare = {}
      /\ h.children[Anchor] = tops \cup ghosts
      /\ \A n \in Ids : \A c : c \in h.children[n] <=> c \in D /\ pid[c] = n
      /\ \A n \in Ids : h.parent[n] = Nil \/ (n \in D \ first /\ h.parent[n] = pid[n] /\ pid[n] # Nil)
  <2>1. h.children[Anchor] = tops \cup ghosts
    <3>1. Anchor \in Nodes
      BY DEF Nodes
    <3> QED  BY <1>3, <1>5, <3>1 DEF LinkedFrom
  <2>2. ASSUME NEW n \in Ids, NEW c
        PROVE  c \in h.children[n] <=> c \in D /\ pid[c] = n
    <3>1. h.children[n] = {d \in orphans : u.pid[d] = n}
      BY <1>5, <1>6 DEF LinkedFrom
    <3>2. n # Nil
      BY Names
    <3> QED  BY <1>3, <3>1, <3>2
  <2>3. ASSUME NEW n \in Ids
        PROVE  h.parent[n] = Nil \/ (n \in D \ first /\ h.parent[n] = pid[n] /\ pid[n] # Nil)
    BY <1>3, <1>5 DEF LinkedFrom
  <2> QED  BY <1>3, <1>5, <2>1, <2>2, <2>3 DEF LinkedFrom
<1>8. \A d \in D : pid[d] # Nil => pid[d] \in Ids /\ pid[d] \in D \cup ghosts
  BY <1>2
<1>t. tops \subseteq D /\ (\A d \in D : d \in tops <=> pid[d] = Nil) /\ ghosts \cap D = {}
  BY <1>1 DEF ghosts
<1> HIDE DEF orphans, tops
<1>9. Made(h)
  <2>1. \A n \in Nodes : h.children[n] \subseteq h.made
    BY <1>7, <1>t DEF Nodes
  <2>2. \A n \in Ids \ h.made : h.children[n] = {}
    BY <1>7, <1>8, Names
  <2>3. \A n \in Ids : h.parent[n] \in h.made \cup {Anchor, Nil}
    BY <1>7, <1>8
  <2> QED  BY <1>5, <1>7, <2>1, <2>2, <2>3 DEF Made, LinkedFrom
<1>10. Kept(h, r)
  <2>1. h.index \subseteq Ids
    BY <1>4, <1>7
  <2> SUFFICES ASSUME NEW n \in Ids, h.parent[n] \in Ids
               PROVE  n \in h.children[h.parent[n]]
    BY <2>1 DEF Kept
  <2> QED  BY <1>7, Names
<1>11. Left(h)
  BY <1>7, <1>5, <1>9 DEF Left, Made
<1>i. \A n \in D \cup ghosts : n \in Ids
  BY <1>4
<1>12. Placed(h)
  <2>1. ASSUME NEW n \in D \cup ghosts PROVE \E q \in Nodes : n \in h.children[q]
    <3>1. CASE n \in tops \cup ghosts
      BY <1>7, <3>1 DEF Nodes
    <3>2. CASE n \notin tops \cup ghosts
      <4>1. n \in D /\ pid[n] \in Ids
        BY <1>8, <1>t, <3>2
      <4> QED  BY <1>6, <1>7, <4>1
    <3> QED  BY <3>1, <3>2
  <2>2. ASSUME NEW n \in D \cup ghosts, h.parent[n] # Nil
        PROVE  n \in h.children[h.parent[n]]
    <3>1. n \in D /\ h.parent[n] = pid[n] /\ pid[n] \in Ids
      BY <1>7, <1>8, <1>i, <2>2
    <3> QED  BY <1>7, <3>1
  <2>3. \A n \in Ids : h.parent[n] # Anchor
    BY <1>7, <1>8, Names
  <2> QED  BY <1>7, <2>1, <2>2, <2>3 DEF Placed
<1>13. \A m, n \in Nodes : m # n => h.children[m] \cap h.children[n] = {}
  <2>1. \A m, n \in Ids : m # n => h.children[m] \cap h.children[n] = {}
    BY <1>7
  <2>2. \A m \in Ids : h.children[m] \cap h.children[Anchor] = {}
    BY <1>7, <1>t, Names
  <2> QED  BY <2>1, <2>2 DEF Nodes
<1>14. \A m \in Ids : \A c \in h.children[m] : h.level[c] = 0
  BY <1>3, <1>5, <1>7, <1>t, Names DEF LinkedFrom
<1> QED  BY <1>3, <1>5, <1>9, <1>10, <1>11, <1>12, <1>13, <1>14 DEF h, u, LinkedFrom, Formed

(* The root: Anchor, or the one child it has.                                *)
LEMMA ReturnedIsMade ==
  ASSUME NEW h, Formed(h)
  PROVE  /\ Returned(h) \in h.made \cup {Anchor}
         /\ Returned(h) # Anchor => h.children[Anchor] = {Returned(h)}
<1> DEFINE tops == h.children[Anchor]
<1>1. CASE Cardinality(tops) = 1
  <2>1. tops \in SUBSET Ids /\ tops \subseteq h.made
    BY DEF Formed, Made, Heaps, Nodes
  <2>2. IsFiniteSet(tops)
    BY <2>1, FS_Subset, IdsAssumption
  <2>3. PICK n : tops = {n}
    BY <1>1, <2>2, FS_Singleton
  <2>4. Returned(h) = n
    BY <1>1, <2>3 DEF Returned
  <2> QED  BY <2>1, <2>3, <2>4
<1>2. CASE Cardinality(tops) # 1
  BY <1>2 DEF Returned
<1> QED  BY <1>1, <1>2

(* Before setLevel: no node has two parents, none is the parent of the root,  *)
(* and what is below a node has no level.                                    *)
Rooted(k, r) ==
    /\ k \in Heaps /\ r \in Nodes
    /\ \A m, n \in Nodes : m # n => k.children[m] \cap k.children[n] = {}
    /\ \A m \in Ids : \A c \in k.children[m] : k.level[c] = 0 /\ c # r
    /\ r # Anchor => k.children[Anchor] = {r}
    /\ \A m \in Nodes : k.level[m] >= RootLevel

(* Where no node is a child of two, none is excused.                        *)
LEMMA NoneTorn ==
  ASSUME NEW k, \A m, n \in Nodes : m # n => k.children[m] \cap k.children[n] = {}
  PROVE  \A n : ~Excused(k, n)
  BY Names DEF Excused, Torn

(* setLevel on the root's children ends and orders all levels.              *)
LEMMA FirstLevelsOrder ==
  ASSUME NEW k, NEW r, Rooted(k, r)
  PROVE  LET s == SetLevel(k, k.children[r], 1)
         IN  ~Overflowed(s) /\ Ordered(s, r, {})
<1> DEFINE N == Cardinality(Nodes)
           S == k.children[r]
           s == SetLevel(k, S, 1)
<1>0. N \in Nat /\ N # 0 /\ k \in Heaps /\ r \in Nodes /\ S \in SUBSET Ids /\ S \in SUBSET Nodes
  BY NodesFinite, ChildrenTypes, Names DEF Rooted
<1>u. \A m, n \in Nodes : m # n => k.children[m] \cap k.children[n] = {}
  BY DEF Rooted
<1>e. \A n : ~Excused(k, n)
  BY <1>u, NoneTorn
<1>c. \A m \in Ids : \A c \in k.children[m] : k.level[c] = 0 /\ c # r
  BY DEF Rooted
<1> HIDE DEF S
<1>1. PICK C : Relevels(k, S, 1, C, s)
  BY <1>0, SetLevelRelevels
<1> HIDE DEF s, N
<1>2. Rounds(k, S, 1, C)
  BY <1>1 DEF Relevels
<1>r. r \notin S
  BY <1>0, <1>c, Names DEF S, Nodes
<1>3. \A d \in 0 .. N : C[d] \subseteq Ids /\ r \notin C[d]
  <2>0. \A d \in 0 .. N : C[d] \subseteq Ids
    BY <1>0, <1>2, RoundsInIds DEF N
  <2> SUFFICES ASSUME NEW d \in 0 .. N, r \in C[d] PROVE FALSE
    BY <2>0
  <2>1. C[0] = S
    BY <1>2 DEF Rounds
  <2>2. d \in 1 .. N /\ d - 1 \in 0 .. N
    BY <1>0, <1>r, <2>1
  <2>3. PICK p \in C[d - 1] : r \in k.children[p]
    BY <1>2, <2>2 DEF Rounds, ChildrenOf, N
  <2> QED  BY <1>c, <2>0, <2>2, <2>3
<1>4. NoWayBack(k, S, C)
  <2> SUFFICES ASSUME NEW d \in 0 .. N, NEW b \in C[d] PROVE k.children[b] \cap S = {}
    BY DEF NoWayBack, N
  <2>1. b \in Nodes /\ b # r
    BY <1>3, Names
  <2> QED  BY <1>0, <1>u, <2>1 DEF S
<1>5. Ends(C)
  BY <1>0, <1>2, <1>4, <1>e, RoundsEnd
<1>6. ~Overflowed(s)
  <2> SUFFICES ASSUME NEW m \in Nodes, s.level[m] = Overflow PROVE FALSE
    BY DEF Overflowed
  <2>1. \/ s.level[m] = k.level[m]
        \/ m \in C[N]
        \/ \E d \in 0 .. N : s.level[m] = 1 + d
    BY <1>1 DEF Relevels, N
  <2>2. m \notin C[N]
    BY <1>5 DEF Ends, N
  <2>3. k.level[m] >= RootLevel /\ k.level[m] \in Int
    BY <1>0 DEF Rooted, Heaps
  <2> QED  BY <1>0, <2>1, <2>2, <2>3 DEF Overflow, RootLevel
<1>7. s \in Heaps /\ s.children = k.children
  BY <1>1 DEF Relevels
<1>v. \A m \in C[0] : Visited(C, m)
  BY <1>0 DEF Visited, N
<1>8. ASSUME NEW m \in Nodes, Visited(C, m), NEW c \in k.children[m] PROVE Visited(C, c)
  <2>1. PICK d \in 0 .. N : m \in C[d]
    BY <1>8 DEF Visited, N
  <2>2. d # N
    BY <1>5, <2>1 DEF Ends, N
  <2>3. d + 1 \in 1 .. N /\ d + 1 \in 0 .. N /\ (d + 1) - 1 = d
    BY <1>0, <2>2
  <2>4. C[d + 1] = {a \in ChildrenOf(k, C[d]) :
                       k.level[a] # 1 + (d + 1) \/ \E e \in 0 .. d : a \in C[e]}
    BY <1>2, <2>3 DEF Rounds, N
  <2>5. k.level[c] # 1 + (d + 1)
    BY <1>3, <1>8, <1>c, <2>1
  <2>6. c \in ChildrenOf(k, C[d])
    BY <1>8, <2>1 DEF ChildrenOf
  <2> QED  BY <2>3, <2>4, <2>5, <2>6 DEF Visited, N
<1>9. \A p \in Forest(s, r) : p \in {Anchor, r} \/ Visited(C, p)
  <2> DEFINE T == {m \in Nodes : m \in {Anchor, r} \/ Visited(C, m)}
  <2>1. T \in SUBSET Nodes /\ Anchor \in T /\ r \in T
    BY <1>0 DEF Nodes
  <2>2. ASSUME NEW m \in T, NEW c \in s.children[m] PROVE c \in T
    <3>1. c \in Nodes /\ c \in k.children[m]
      BY <1>0, <1>7, <2>2, ChildrenTypes, Names
    <3>2. CASE Visited(C, m)
      BY <1>8, <3>1, <3>2
    <3>3. CASE m = r
      BY <1>2, <1>v, <3>1, <3>3 DEF Rounds, S
    <3>4. CASE m = Anchor /\ r # Anchor
      BY <3>1, <3>4 DEF Rooted
    <3> QED  BY <3>2, <3>3, <3>4
  <2> HIDE DEF T
  <2>3. Forest(s, r) \subseteq T
    BY <1>0, <1>7, <2>1, <2>2, ForestLeast
  <2> QED  BY <2>3 DEF T
<1>10. Ordered(s, r, {})
  <2> SUFFICES ASSUME NEW p \in Forest(s, r), NEW n \in s.children[p] PROVE Fits(s, r, p, n)
    BY DEF Ordered
  <2>1. CASE p = Anchor /\ r # Anchor
    BY <2>1 DEF Fits
  <2>2. CASE p = r
    <3>1. n \in S
      BY <1>7, <2>2 DEF S
    <3>2. s.level[n] = 1
      BY <1>0, <1>1, <1>4, <1>5, <3>1, BeginsAtLevel
    <3> QED  BY <2>2, <3>2 DEF Fits, Stands
  <2>3. CASE Visited(C, p)
    <3>1. OneBelow(k, s, p)
      BY <1>0, <1>1, <1>4, <1>5, <2>3, ChildOneBelow
    <3> QED  BY <1>7, <1>e, <3>1 DEF OneBelow, Fits, Stands
  <2> QED  BY <1>9, <2>1, <2>2, <2>3
<1> QED  BY <1>6, <1>10 DEF s, S

(* TreeOf establishes the invariant.                                        *)
LEMMA InitSound == Init => IInv
<1> SUFFICES ASSUME Init PROVE IInv
  OBVIOUS
<1>1. PICK D \in (SUBSET Ids) \ {{}} :
        \E pid \in [D -> Ids \cup {Nil}] :
          \E first \in FirstChildren(D, pid) : TreeOf(D, pid, first)
  BY DEF Init
<1>2. PICK pid \in [D -> Ids \cup {Nil}] :
        \E first \in FirstChildren(D, pid) : TreeOf(D, pid, first)
  BY <1>1
<1>3. PICK first \in FirstChildren(D, pid) : TreeOf(D, pid, first)
  BY <1>2
<1> DEFINE h == Linked(Unlinked(D, pid), first)
           r == Returned(h)
           k == [h EXCEPT !.level[r] = RootLevel]
<1>4. heap = SetLevel(k, k.children[r], 1) /\ root = r
  <2>1. heap = Levelled(h, r) /\ root = r
    BY <1>3 DEF TreeOf
  <2>2. h \in Heaps
    BY FormsSound DEF Formed
  <2> HIDE DEF h, r
  <2>3. k.children = h.children
    BY <2>2 DEF Heaps
  <2> QED  BY <2>1, <2>3 DEF Levelled
<1>5. Formed(h) /\ Kept(h, r)
  BY FormsSound
<1> HIDE DEF h
<1>6. r \in h.made \cup {Anchor} /\ r \in Nodes /\ (r # Anchor => h.children[Anchor] = {r})
  BY <1>5, ReturnedIsMade DEF Formed, Heaps, Nodes
<1> HIDE DEF r
<1>7. /\ k \in Heaps
      /\ k.index = h.index /\ k.made = h.made /\ k.bare = h.bare /\ k.ghosts = h.ghosts
      /\ k.children = h.children /\ k.parent = h.parent
      /\ k.level = [h.level EXCEPT ![r] = RootLevel]
  <2> DEFINE level == [h.level EXCEPT ![r] = RootLevel]
  <2>1. h \in Heaps
    BY <1>5 DEF Formed
  <2>2. level \in [Nodes -> Int] /\ k = [h EXCEPT !.level = level]
    BY <1>6, <2>1 DEF Heaps, RootLevel
  <2> HIDE DEF level, k
  <2>3. /\ k \in Heaps /\ k.level = level
        /\ k.index = h.index /\ k.made = h.made /\ k.bare = h.bare /\ k.ghosts = h.ghosts
        /\ k.children = h.children /\ k.parent = h.parent
    BY <2>1, <2>2 DEF Heaps
  <2> QED  BY <2>3 DEF level
<1> HIDE DEF k
<1>8. Roots(k, r)
  BY <1>5, <1>6, <1>7 DEF Roots, Formed, Heaps, RootLevel
<1>9. Sound(k, r)
  BY <1>5, <1>7, <1>8 DEF Sound, Formed, Made, Kept, Left, Placed
<1>10. Rooted(k, r)
  <2>1. ASSUME NEW m \in Ids, NEW c \in k.children[m] PROVE k.level[c] = 0 /\ c # r
    <3>1. c \in h.children[m] /\ c \in Ids /\ m \in Nodes /\ m # Anchor /\ Anchor \in Nodes
      BY <1>7, <2>1, ChildrenTypes, Names DEF Nodes
    <3>2. c # r
      BY <1>5, <1>6, <3>1, Names DEF Formed
    <3>3. c \in Nodes /\ h.level[c] = 0 /\ h.level \in [Nodes -> Int]
      BY <1>5, <3>1, Names DEF Formed, Heaps
    <3> QED  BY <1>7, <3>2, <3>3
  <2>2. \A m \in Nodes : k.level[m] >= RootLevel
    BY <1>8 DEF Roots
  <2> QED  BY <1>5, <1>6, <1>7, <2>1, <2>2 DEF Rooted, Formed
<1> DEFINE S == k.children[r]
<1>11. S \in SUBSET Nodes
  BY <1>6, <1>7, ChildrenTypes, Names
<1>12. ~Overflowed(SetLevel(k, S, 1)) /\ Ordered(SetLevel(k, S, 1), r, {})
  BY <1>10, FirstLevelsOrder
<1> HIDE DEF S
<1>13. Sound(SetLevel(k, S, 1), r) /\ Grows(k, SetLevel(k, S, 1))
  BY <1>9, <1>11, <1>12, SetLevelSound DEF RootLevel
<1>14. heap = SetLevel(k, S, 1) /\ root = r
  BY <1>4 DEF S
<1>15. Sound(heap, root) /\ Ordered(heap, root, {}) /\ Grows(k, heap)
  BY <1>12, <1>13, <1>14
<1> QED  BY <1>6, <1>7, <1>14, <1>15 DEF IInv, Init, Grows

-----------------------------------------------------------------------------
(* Every call keeps it, and takes no node's parent from the index alone.    *)
LEMMA StepKeeps ==
  ASSUME IInv, [Next]_vars
  PROVE  IInv' /\ Stay(heap, heap', root)
<1>1. CASE UNCHANGED vars
  BY <1>1 DEF vars, IInv, Stay
<1>2. ASSUME NEW t \in Reachable, NEW i \in Ids, NEW p \in Ids \cup {Nil}, AddNew(t, i, p)
      PROVE  IInv' /\ Stay(heap, heap', root)
  BY <1>2, AddNewKeeps DEF Stay
<1>3. ASSUME NEW t \in Reachable, NEW i \in Ids, NEW p \in Ids \cup {Nil}, AddAgain(t, i, p)
      PROVE  IInv' /\ Stay(heap, heap', root)
  BY <1>3, AddAgainKeeps DEF Settles, Stay
<1>4. ASSUME NEW t \in Nodes, UNCHANGED root, RemoveNode(t)
      PROVE  IInv' /\ Stay(heap, heap', root)
  BY <1>4, RemoveKeeps DEF Stay
<1>5. Reachable \subseteq Nodes /\ Ids \subseteq Nodes
  BY ReachableIsMade DEF IInv, Sound, Heaps, Nodes
<1>6. ASSUME NEW t \in Reachable, Remove(t) \/ Clear(t)
      PROVE  IInv' /\ Stay(heap, heap', root)
  BY <1>4, <1>5, <1>6 DEF Remove, Clear, Call
<1>7. ASSUME NEW t \in Reachable, NEW i \in Ids, RemoveChild(t, i)
      PROVE  IInv' /\ Stay(heap, heap', root)
  BY <1>4, <1>5, <1>7 DEF RemoveChild, Call
<1> QED  BY <1>1, <1>2, <1>3, <1>6, <1>7 DEF Next

(* It holds of every state.                                                 *)
LEMMA Invariant == Spec => []IInv
<1>1. IInv /\ [Next]_vars => IInv'
  BY StepKeeps
<1> QED  BY InitSound, <1>1, PTL DEF Spec

(* The fields of a forest keep their types, and a node that Add made has no   *)
(* children as long as its map is nil: whatever the data and the calls.       *)
THEOREM TypeCorrect == Spec => []TypeOK
<1>1. IInv => TypeOK
  BY DEF IInv, Sound, Heaps, Made, TypeOK, Nodes
<1> QED  BY Invariant, <1>1, PTL

(* A node Remove took out of the index is no longer a child of its parent.   *)
THEOREM RemovedLeavesParentHolds == Spec => []RemovedLeavesParent
<1>1. IInv => RemovedLeavesParent
  BY DEF IInv, Sound, Left, RemovedLeavesParent
<1> QED  BY Invariant, <1>1, PTL

(* While no node is a child of two, Distance is right: a node is one level    *)
(* below the node whose child it is, but for ghosts added again, what was    *)
(* added at the root, and children of the root; whatever the data and calls. *)
THEOREM LevelsFollowChildrenHolds == Spec => []LevelsFollowChildren
<1>1. IInv => LevelsFollowChildren
  <2> SUFFICES ASSUME IInv,
                      \A p, q \in Nodes : p # q => heap.children[p] \cap heap.children[q] = {},
                      NEW p \in Below(heap, root),
                      NEW n \in (heap.children[p] \cap heap.index) \ heap.ghosts
               PROVE  Stands(heap, root, p, n)
    BY DEF LevelsFollowChildren, Stands
  <2>1. heap \in Heaps /\ root \in Nodes /\ Ordered(heap, root, {})
    BY Names DEF IInv, Sound, Heaps, Nodes
  <2>2. ~Excused(heap, n)
    BY NoneTorn
  <2>3. p \in Forest(heap, root)
    <3>1. /\ Forest(heap, root) \in SUBSET Nodes /\ root \in Forest(heap, root)
          /\ \A m \in Forest(heap, root) : heap.children[m] \subseteq Forest(heap, root)
      BY <2>1, ForestHolds
    <3>2. Below(heap, root) \subseteq Forest(heap, root)
      BY <2>1, <3>1, BelowLeast
    <3> QED  BY <3>2
  <2>4. Fits(heap, root, p, n)
    BY <2>1, <2>3 DEF Ordered
  <2>5. CASE p # Anchor
    BY <2>2, <2>4, <2>5 DEF Fits
  <2>6. CASE p = Anchor
    <3>1. root = Anchor
      <4>1. root \notin Ids
        BY <2>1, <2>6, BelowInIds, Names
      <4> QED  BY <2>1, <4>1 DEF Nodes
    <3>2. ~HasParent(heap, n)
      BY <2>6, Names DEF HasParent, Nodes
    <3> QED  BY <2>2, <2>4, <3>1, <3>2 DEF Fits
  <2> QED  BY <2>5, <2>6
<1> QED  BY Invariant, <1>1, PTL

(* No call takes a node out of the index and leaves there a node it is the    *)
(* parent of, but for ghosts and what was added at the root.                *)
THEOREM RemovesChildrenHolds == Spec => RemovesChildren
<1>1. IInv /\ [Next]_vars =>
        [\A n \in (heap.index \cap heap'.index) \ heap.ghosts :
            heap.parent[n] \in heap.index \ {root} => heap.parent[n] \in heap'.index]_vars
  BY StepKeeps DEF Stay
<1> QED  BY Invariant, <1>1, PTL DEF Spec, RemovesChildren

=============================================================================
