------------------------------- MODULE Query --------------------------------
(***************************************************************************)
(* query: conditions become a tree of criteria, and the tree a where clause  *)
(* with numbered arguments; the filters UrlSearch read are conditions too.   *)
(*                                                                         *)
(* Text is kept as the database reads it: the comparisons from left to right *)
(* and whether it is true of a row; an argument is named by the comparison   *)
(* it is for.                                                              *)
(***************************************************************************)
EXTENDS UrlSearch

CONSTANTS
    Conditions,  \* conditions given to Where, and the nodes in them: [kind, of]
    Nesting,     \* bound of Height
    Height,      \* Height[c]: a number above those of the nodes in c
    MaxWheres    \* bound: calls of Where on a builder

VARIABLES
    asked,       \* the conditions Where was given
    where        \* sqlBuilder.where, below the root: one node at most

vars == <<asked, where, searchVars>>

Constraints == {"and", "or"}

(* A field compared with the value of a key, or with nil.                    *)
Comparisons == [field : Fields, op : UrlOps \cup {"in"}, of : Keys \cup {Nil}]

(* One comparison each, but for Null and NotNull.                            *)
Leaves == [kind : {"leaves"}, of : Seq(Comparisons)]

(* What UrlFieldParams makes.                                               *)
UrlConditions == [kind : {"and"}, of : Seq(Leaves)]

(* And and Or are given conditions that were made before: none is in itself. *)
ASSUME QueryAssumption ==
    /\ Conditions \subseteq Leaves \cup [kind : Constraints, of : Seq(Leaves \cup Conditions)]
    /\ Nesting \in Nat \ {0} /\ Height \in [Conditions -> 1 .. Nesting]
    /\ \A c \in Conditions : c.kind \in Constraints =>
          \A i \in DOMAIN c.of : c.of[i].kind \in Constraints => Height[c.of[i]] < Height[c]

IsNode(c) == c.kind \in Constraints

NodeConditions == {c \in Conditions : IsNode(c)} \cup UrlConditions

HeightOf(c) == IF c \in Conditions THEN Height[c] ELSE 1

(* Arguments a comparison takes: none with nil, the values of in.            *)
ArgsOf(leaf) ==
    CASE leaf.of = Nil -> <<>>
      [] leaf.of # Nil /\ leaf.op = "in" -> <<<<leaf, 1>>, <<leaf, 2>>>>
      [] OTHER -> <<<<leaf, 1>>>>
-----------------------------------------------------------------------------
(* Conditions and criteria.  A node keeps its children in two lists, by the  *)
(* constraint they were appended under.  A child is a leaf, or the condition *)
(* that made a node of its own.                                             *)

(* A comparison with nil becomes is null whatever its operator, but for       *)
(* NotNull.                                                                *)
Written(leaf) ==
    IF leaf.of = Nil /\ leaf.op # "notnull" THEN [leaf EXCEPT !.op = "null"] ELSE leaf

LeafNode(leaf) == [kind |-> "leaf", leaf |-> Written(leaf)]

(* What c appends under cs to a node of the constraint: doLeafCompare and     *)
(* doLeafNullCompare append under that of the receiver, doNode under its own. *)
Appended(c, constraint, cs) ==
    CASE c.kind = "leaves" /\ cs = constraint -> [i \in DOMAIN c.of |-> LeafNode(c.of[i])]
      [] c.kind = cs /\ c.of # <<>> -> <<c>>
      [] OTHER -> <<>>

(* The lists of the node that c makes.                                      *)
Children(c) ==
    [cs \in Constraints |-> FlattenSeq([i \in DOMAIN c.of |-> Appended(c.of[i], c.kind, cs)])]

(* Texts joined by cs, each in brackets unless it is the only one.            *)
Joined(cs, texts) ==
    [reads |-> FlattenSeq([i \in DOMAIN texts |-> texts[i].reads]),
     args  |-> FlattenSeq([i \in DOMAIN texts |-> texts[i].args]),
     holds |-> [S \in SUBSET Comparisons |->
                   IF cs = "and" THEN \A i \in DOMAIN texts : texts[i].holds[S]
                   ELSE \E i \in DOMAIN texts : texts[i].holds[S]]]

(* An empty text is left out.                                               *)
Nonempty(text) == IF text.reads = <<>> THEN <<>> ELSE <<text>>

LeafText(leaf) ==
    [reads |-> <<leaf>>, args |-> ArgsOf(leaf),
     holds |-> [S \in SUBSET Comparisons |-> leaf \in S]]

(* built has the nodes below.                                               *)
ChildText(child, built) ==
    IF child.kind = "leaf" THEN LeafText(child.leaf) ELSE built[child]

Group(cs, lists, built) ==
    Joined(cs, FlattenSeq([i \in DOMAIN lists[cs] |-> Nonempty(ChildText(lists[cs][i], built))]))

(* Slip: the arguments of the two groups come in one order always.            *)
NodeTextSorted(constraint, lists, order, built) ==
    [Joined(constraint, Nonempty(Group(order[1], lists, built))
                          \o Nonempty(Group(order[2], lists, built)))
       EXCEPT !.args = Group("and", lists, built).args \o Group("or", lists, built).args]

(* The text of a node, its map ranged over in the given order: the arguments  *)
(* come in the order their groups do.                                       *)
NodeText(constraint, lists, order, built) ==
    Joined(constraint, Nonempty(Group(order[1], lists, built))
                         \o Nonempty(Group(order[2], lists, built)))

Orders == {<<"and", "or">>, <<"or", "and">>}

(* Nodes of one height range over their maps in one order: with a height of  *)
(* its own, each condition makes nodes with an order of their own.           *)
RangeOrders == [1 .. Nesting + 1 -> Orders]

Build(order) ==
    LET built[c \in NodeConditions] ==
            NodeText(c.kind, Children(c), order[HeightOf(c)], built)
    IN  NodeText("and", where[1], order[Nesting + 1], built)
-----------------------------------------------------------------------------
Init ==
    /\ asked = <<>>
    /\ where = <<>>
    /\ SearchInit

NoChildren == [cs \in Constraints |-> <<>>]

AppendTo(lists, c) == [cs \in Constraints |-> lists[cs] \o Appended(c, "and", cs)]

(* Slip: every call begins a where clause of its own.                        *)
WhereAfresh(c) ==
    /\ Len(asked) < MaxWheres
    /\ asked' = Append(asked, c)
    /\ where' = <<AppendTo(NoChildren, c)>>

(* Where while a search is loaded would be Where before: they share nothing. *)
(* getCriteriaRoot makes an and-node the first time, and finds it later.     *)
Where(c) ==
    /\ Len(asked) < MaxWheres
    /\ asked' = Append(asked, c)
    /\ where' = <<AppendTo(IF where = <<>> THEN NoChildren ELSE where[1], c)>>

UseWhere(c) == status \in {"new", "used"} /\ Where(c) /\ UNCHANGED searchVars

(* The order against Where does not matter: loading comes first.             *)
LoadQuery == asked = <<>> /\ LoadUrl /\ UNCHANGED <<asked, where>>

(* Slip: every filter is compared for equality.                              *)
FromUrlParamsEqual ==
    /\ UseParams
    /\ \E ls \in SetToSeqs(UrlFieldParams(search)) :
         Where([kind |-> "and",
                of |-> [i \in DOMAIN ls |->
                           [kind |-> "leaves", of |-> <<[ls[i] EXCEPT !.op = "eq"]>>]]])

(* The maps of the search are ranged over in any order.                      *)
FromUrlParams ==
    /\ UseParams
    /\ \E ls \in SetToSeqs(UrlFieldParams(search)) :
         Where([kind |-> "and",
                of |-> [i \in DOMAIN ls |-> [kind |-> "leaves", of |-> <<ls[i]>>]]])

Next == (\E c \in Conditions : UseWhere(c)) \/ LoadQuery \/ FromUrlParams

Spec == Init /\ [][Next]_vars
-----------------------------------------------------------------------------
(* The comparisons in a condition, and whether conditions joined by kind are   *)
(* true when those in S hold; conditions without a comparison are set aside.  *)

SaidBy[c \in NodeConditions] ==
    UNION {IF IsNode(c.of[i]) THEN SaidBy[c.of[i]] ELSE ToSet(c.of[i].of) : i \in DOMAIN c.of}

Said(c) == IF IsNode(c) THEN SaidBy[c] ELSE ToSet(c.of)

JoinMeans(kind, cs, meant, S) ==
    LET Of(c) == IF IsNode(c) THEN meant[c]
                 ELSE IF kind = "and" THEN ToSet(c.of) \subseteq S ELSE ToSet(c.of) \cap S # {}
        said  == {i \in DOMAIN cs : Said(cs[i]) # {}}
    IN  IF kind = "and" THEN \A i \in said : Of(cs[i]) ELSE \E i \in said : Of(cs[i])

Meant(cs, S) ==
    LET meant[c \in NodeConditions] == JoinMeans(c.kind, c.of, meant, S)
    IN  JoinMeans("and", cs, meant, S)

(* Two nodes of the other kind in one node: see NodesKeepTheirJoin.          *)
TwoOthers(kind, cs) ==
    \E i, j \in DOMAIN cs : i # j /\ \A n \in {i, j} :
        cs[n].kind \in Constraints \ {kind} /\ Said(cs[n]) # {}

Regrouped[c \in NodeConditions] ==
    TwoOthers(c.kind, c.of) \/ \E i \in DOMAIN c.of : IsNode(c.of[i]) /\ Regrouped[c.of[i]]

RegroupedIn(cs) ==
    TwoOthers("and", cs) \/ \E i \in DOMAIN cs : IsNode(cs[i]) /\ Regrouped[cs[i]]

AllAsked == UNION {Said(asked[i]) : i \in DOMAIN asked}

(* The clause is empty if nothing is asked, and means what is.               *)
Faithful ==
    LET meant == {S \in SUBSET AllAsked : Meant(asked, S)}
    IN  \A order \in RangeOrders :
            LET clause == Build(order)
            IN  IF AllAsked = {} THEN clause.reads = <<>>
                ELSE clause.reads # <<>> /\ {S \in SUBSET AllAsked : clause.holds[S]} = meant

(* NotEqual(field, nil), and so on: is null is not what it says.              *)
Misread == {leaf \in AllAsked : Written(leaf) # leaf}

(* The where clause selects what the conditions mean, whatever order the maps *)
(* are ranged over in, as long as no node holds two nodes of the other kind   *)
(* and nothing but Null and NotNull asks for nil (Equal(field, nil) is Null).  *)
ClauseMeansConditions ==
    where # <<>> /\ ~RegroupedIn(asked) /\ Misread = {} => Faithful

(* Argument $i is a value of the comparison the i-th placeholder belongs to:  *)
(* the order of the map never separates the text from its arguments.         *)
ArgumentsMatchText ==
    where # <<>> =>
        \A order \in RangeOrders :
            LET clause == Build(order)
            IN  clause.args =
                    FlattenSeq([i \in DOMAIN clause.reads |-> ArgsOf(clause.reads[i])])

(* query/sql_criteria_test.go:63: conditions given to Where are joined by and, *)
(* and each keeps its own join (comparisons with nil aside).                 *)
NodesKeepTheirJoin == where # <<>> /\ Misread = {} => Faithful

=============================================================================
