-------------------------------- MODULE Tree --------------------------------
(***************************************************************************)
(* TreeNode of collections/tree.go: TreeOf builds a forest of linked nodes  *)
(* with an index from a list of data; Add, Remove, RemoveChild and Clear    *)
(* change it, called on any node the caller can reach.                     *)
(*                                                                         *)
(* A node is named by its identifier, since an identifier is not used again *)
(* once its node was removed.  A parent that is not in the data is stood in *)
(* for by a ghost node, whose own data is the zero value.                   *)
(***************************************************************************)
EXTENDS Integers, FiniteSets, Functions

CONSTANTS
    Ids,       \* identifiers
    Anchor,    \* the anonymous node TreeOf begins with
    Nil,       \* no parent; also the default identifier
    MaxCalls   \* bound: calls made on the tree

ASSUME IdsAssumption ==
    IsFiniteSet(Ids) /\ Anchor \notin Ids /\ Nil \notin Ids \cup {Anchor}

RootLevel == -1000

VARIABLES
    heap,      \* the linked nodes
    root,      \* the node TreeOf returned
    status,    \* "ok", or the kind of call that panicked
    calls      \* calls made

vars == <<heap, root, status, calls>>

Nodes == Ids \cup {Anchor}

(* index: identifiers in the index of Anchor; made: nodes that exist or did; *)
(* children, parent, level: the fields; pid: data.ParentIdentifier(); bare:  *)
(* nodes whose children map is nil; ghosts: nodes with ghost set.            *)
TypeOK ==
    /\ heap \in [index : SUBSET Ids, made : SUBSET Ids, bare : SUBSET Ids,
                 ghosts : SUBSET Ids, children : [Nodes -> SUBSET Ids],
                 parent : [Ids -> Nodes \cup {Nil}], pid : [Ids -> Ids \cup {Nil}],
                 level : [Nodes -> Int]]
    /\ root \in Nodes
    /\ status \in {"ok", "fresh", "again", "remove"}
    /\ heap.index \cup heap.bare \cup heap.ghosts \subseteq heap.made
    /\ \A n \in heap.bare : heap.children[n] = {}

(* Nodes at or below those of S along children.                             *)
Closure(h, S) ==
    LET closed == {T \in SUBSET Nodes : S \subseteq T /\ \A n \in T : h.children[n] \subseteq T}
    IN  {n \in Nodes : \A T \in closed : n \in T}

Below(h, n) == Closure(h, {n})

Cyclic(h, n) == \E m \in Below(h, n) : m \in Closure(h, h.children[m])

(* The visits of setLevel(l) on the nodes of S, each with its depth.  A child *)
(* that has its level already is left alone, unless it was given another one  *)
(* by this call.                                                            *)
Visits(h, S, l) ==
    LET visits[d \in 0 .. Cardinality(Nodes)] ==
            IF d = 0 THEN S \X {0}
            ELSE LET seen     == visits[d - 1]
                     children == UNION {h.children[m] : m \in {m \in Nodes : <<m, d - 1>> \in seen}}
                     again    == {c \in children : \E e \in 0 .. d - 1 : <<c, e>> \in seen}
                 IN  seen \cup ({c \in children : h.level[c] # l + d} \cup again) \X {d}
    IN  visits[Cardinality(Nodes)]

(* A path that is longer than there are nodes is on a cycle, where setLevel    *)
(* recurses until the stack is exhausted: Overflow, below every level, stands *)
(* for that.                                                                *)
Overflow == RootLevel - 1

(* Slip: children keep the level they have.                                  *)
SetLevelShallow(h, S, l) ==
    [h EXCEPT !.level = [m \in Nodes |-> IF m \in S THEN l ELSE @[m]]]

(* setLevel on the nodes of S.  A node that is a child of several keeps the    *)
(* level of one of its visits.                                              *)
SetLevel(h, S, l) ==
    LET visits    == Visits(h, S, l)
        Depths(m) == {d \in 0 .. Cardinality(Nodes) : <<m, d>> \in visits}
    IN  [h EXCEPT !.level = [m \in Nodes |->
            CASE Depths(m) = {} -> @[m]
              [] Cardinality(Nodes) \in Depths(m) -> Overflow
              [] OTHER -> l + CHOOSE d \in Depths(m) : TRUE]]

Overflowed(h) == \E n \in Nodes : h.level[n] = Overflow

(* A ghost becomes a child of Anchor with n as its child, n.parent unset.    *)
AddGhost(h, n, p) ==
    [h EXCEPT !.index = @ \cup {p}, !.made = @ \cup {p}, !.ghosts = @ \cup {p},
              !.children = [m \in Nodes |-> CASE m = p      -> {n}
                                               [] m = Anchor -> @[m] \cup {p}
                                               [] OTHER      -> @[m]],
              !.level = [@ EXCEPT ![p] = 0]]

AddToParent(h, n, p) ==
    CASE p = Nil -> h
      [] p \in h.index -> [h EXCEPT !.parent[n] = p, !.children[p] = @ \cup {n}]
      [] OTHER -> AddGhost(h, n, p)
-----------------------------------------------------------------------------
(* TreeOf: first the nodes of all data, then their links, then the levels.   *)

Unlinked(D, pid) ==
    LET tops == {d \in D : pid[d] = Nil}
    IN  [index |-> D, made |-> D, bare |-> {}, ghosts |-> {},
         children |-> [n \in Nodes |-> IF n = Anchor THEN tops ELSE {}],
         parent |-> [n \in Ids |-> Nil],
         pid |-> [n \in Ids |-> IF n \in D THEN pid[n] ELSE Nil],
         level |-> [n \in Nodes |-> CASE n = Anchor -> RootLevel
                                      [] n \in tops -> 1
                                      [] OTHER -> 0]]

(* The order of the data only decides which child makes a ghost: the first.   *)
(* It is the ghost's child, but has no parent.                              *)
Linked(h, first) ==
    LET orphans == {d \in h.index : h.pid[d] # Nil}
        ghosts  == {h.pid[d] : d \in first}
    IN  [h EXCEPT !.index = @ \cup ghosts, !.made = @ \cup ghosts, !.ghosts = ghosts,
                  !.children = [n \in Nodes |-> IF n = Anchor THEN @[n] \cup ghosts
                                                ELSE {d \in orphans : h.pid[d] = n}],
                  !.parent = [n \in Ids |-> IF n \in orphans \ first THEN h.pid[n] ELSE @[n]]]

Levelled(h, r) == SetLevel([h EXCEPT !.level[r] = RootLevel], h.children[r], 1)

Returned(h) ==
    IF Cardinality(h.children[Anchor]) = 1
      THEN CHOOSE n \in h.children[Anchor] : TRUE ELSE Anchor

(* The first child in the data of each parent that is missing from it.       *)
FirstChildren(D, pid) ==
    {F \in SUBSET {d \in D : pid[d] \notin D \cup {Nil}} :
        /\ {pid[d] : d \in F} = {pid[d] : d \in D} \ (D \cup {Nil})
        /\ IsInjective([d \in F |-> pid[d]])}

TreeOf(D, pid, first) ==
    LET h == Linked(Unlinked(D, pid), first)
    IN  heap = Levelled(h, Returned(h)) /\ root = Returned(h)

Init ==
    /\ \E D \in (SUBSET Ids) \ {{}} :
         \E pid \in [D -> Ids \cup {Nil}] :
           \E first \in FirstChildren(D, pid) : TreeOf(D, pid, first)
    /\ status = "ok"
    /\ calls = 0
-----------------------------------------------------------------------------
Call == status = "ok" /\ calls < MaxCalls /\ calls' = calls + 1 /\ UNCHANGED root

(* A panic ends the behaviour; the half-made change is not shown.            *)
Panics(kind) == status' = kind /\ UNCHANGED heap

Returns(h, kind) ==
    IF Overflowed(h) THEN Panics(kind) ELSE heap' = h /\ UNCHANGED status

(* A node a caller can get hold of.                                         *)
Reachable == Below(heap, Anchor) \cup heap.index \cup {root}

Get(t, i) == IF i \in heap.children[t] THEN i ELSE Nil

(* Slip: the node added is given children though its map is nil.            *)
AddNewUnchecked(t, i, p) ==
    /\ Call
    /\ i \notin heap.made /\ t # Anchor /\ p = Nil
    /\ Returns([heap EXCEPT !.index = @ \cup {i}, !.made = @ \cup {i}, !.bare = @ \cup {i},
                            !.parent[i] = t, !.level[i] = heap.level[t] + 1,
                            !.children[t] = @ \cup {i}], "fresh")

(* The node Add makes, before it is linked.                                  *)
NewNode(t, i, p) ==
    [heap EXCEPT !.index = @ \cup {i}, !.made = @ \cup {i}, !.bare = @ \cup {i},
                 !.pid = [@ EXCEPT ![i] = p], !.parent = [@ EXCEPT ![i] = t],
                 !.level = [@ EXCEPT ![i] = heap.level[t] + 1]]

(* Add of data that is new.  On a root the node goes under the parent its    *)
(* data names; elsewhere it goes under the receiver, whatever its data says. *)
(* The node itself has no children map, so nothing can be added under it.    *)
AddNew(t, i, p) ==
    LET h == NewNode(t, i, p)
    IN  /\ Call
        /\ i \notin heap.made
        /\ p \in heap.index \cup {Nil} \cup (Ids \ h.made)
        /\ IF heap.level[t] = RootLevel
             THEN IF p \in h.bare
                    THEN Panics("fresh")
                    ELSE Returns(AddToParent(h, i, p), "fresh")
             ELSE IF t \in h.bare
                    THEN Panics("fresh")
                    ELSE Returns([h EXCEPT !.children[t] = @ \cup {i}], "fresh")

(* unGhost, which Add runs on a node that is not a ghost.                    *)
UnGhost(h, i, p) ==
    LET g == AddToParent([h EXCEPT !.pid[i] = p, !.ghosts = @ \ {i}], i, p)
        k == [g EXCEPT !.children[Anchor] = @ \ {i}]
    IN  IF p = Nil
          THEN Returns(g, "again")
          ELSE IF p \in h.bare \/ k.parent[i] = Nil
                 THEN Panics("again")
                 ELSE Returns(SetLevel(k, {i}, k.level[k.parent[i]] + 1), "again")

(* Add of data whose identifier is in the index.  The new parent is compared *)
(* with the parent of the receiver, not with the receiver.                   *)
AddAgain(t, i, p) ==
    LET tpid     == IF t = Anchor \/ t \in heap.ghosts THEN Nil ELSE heap.pid[t]
        moved    == AddToParent(heap, i, p)
        under    == [heap EXCEPT !.parent[i] = t, !.children[t] = @ \cup {i}]
        levelled == SetLevel(under, {t}, under.level[under.parent[t]] + 1)
        After(h) == IF i \in heap.ghosts THEN Returns(h, "again") ELSE UnGhost(h, i, p)
    IN  /\ Call
        /\ i \in heap.index
        /\ p \in heap.index \cup {Nil} \cup (Ids \ heap.made)
        /\ CASE p # Nil /\ tpid = Nil -> Panics("again")
             [] p # Nil /\ tpid # Nil /\ p # tpid ->
                  IF p \in heap.bare THEN Panics("again") ELSE After(moved)
             [] OTHER ->
                  IF i \in heap.children[t] THEN After(heap)
                  ELSE IF t \in heap.bare THEN Panics("again")
                  ELSE IF t = Anchor \/ under.parent[t] = Nil THEN Panics("again")
                  ELSE IF Overflowed(levelled) THEN Panics("again")
                  ELSE After(levelled)

(* Slip: only the receiver goes.                                             *)
RemovedAlone(h, t) ==
    LET gone == {t} \ (h.ghosts \cup {Anchor})
    IN  [h EXCEPT !.index = @ \ gone,
                  !.children = [n \in Nodes |-> @[n] \ {c \in gone : h.parent[c] = n}]]

(* Slip: the nodes leave the index only.                                     *)
RemovedFromIndex(h, t) ==
    [h EXCEPT !.index = @ \ (Below(h, t) \ h.ghosts)]

(* Remove: a ghost's data names no identifier, so it stays in the index, and *)
(* a node without parent stays among the children it is in.                 *)
Removed(h, t) ==
    LET gone == {n \in Below(h, t) \ {Anchor} : n \notin h.ghosts}
    IN  [h EXCEPT !.index = @ \ gone,
                  !.children = [n \in Nodes |->
                     @[n] \ {c \in gone : h.parent[c] = n}]]

RemoveNode(t) ==
    IF Cyclic(heap, t) THEN Panics("remove") ELSE Returns(Removed(heap, t), "remove")

Remove(t) == Call /\ t \in Reachable /\ RemoveNode(t)

(* RemoveChild removes whatever Get would return.                           *)
RemoveChild(t, i) == Call /\ t \in Reachable /\ Get(t, i) # Nil /\ RemoveNode(i)

(* Clear visits and deletes what Remove does.                               *)
Clear(t) == Remove(t)

Next ==
    \/ \E t \in Reachable, i \in Ids, p \in Ids \cup {Nil} :
         AddNew(t, i, p) \/ AddAgain(t, i, p)
    \/ \E t \in Reachable : Remove(t) \/ Clear(t)
    \/ \E t \in Reachable, i \in Ids : RemoveChild(t, i)

Spec == Init /\ [][Next]_vars
-----------------------------------------------------------------------------
(* A node that Remove took out of the index is not among the children of the *)
(* node it has for a parent: what Get still finds after Find does not is a  *)
(* top of the forest, the child that made a ghost, or was added twice.      *)
RemovedLeavesParent ==
    \A p \in Nodes : \A c \in heap.children[p] \ heap.index : heap.parent[c] # p

(* Removing a node removes its children: Find never returns a node that was  *)
(* cut off with its parent.  A node added at the root with no parent in its  *)
(* data is a child of nobody and stays, as does a ghost.                    *)
RemovesChildren ==
    [][\A n \in (heap.index \cap heap'.index) \ heap.ghosts :
          heap.parent[n] \in heap.index \ {root} => heap.parent[n] \in heap'.index]_vars

(* Distance subtracts levels: while every node is a child of one node only, a *)
(* node is one level below the node whose child it is.  Not so are ghosts that *)
(* were added again, and what was added at the root: one below RootLevel.    *)
LevelsFollowChildren ==
    (\A p, q \in Nodes : p # q => heap.children[p] \cap heap.children[q] = {}) =>
        \A p \in Below(heap, root) :
            \A n \in (heap.children[p] \cap heap.index) \ heap.ghosts :
                \/ heap.level[n] \in {heap.level[p] + 1, RootLevel + 1}
                \/ p = root /\ heap.level[n] = 1

(* collections/tree_test.go:45, "can add node as child to another node": new *)
(* data can be added to any node.                                           *)
NewDataCanBeAdded == status # "fresh"

=============================================================================
