------------------------------ MODULE MCQuery ------------------------------
(***************************************************************************)
(* Query over three columns, conditions two nodes deep and query strings of  *)
(* two keys.  f and g are named by one word, h is not.                       *)
(***************************************************************************)
EXTENDS Query

CONSTANTS f, g, h

MCFields == {f, g, h}

MCOneWord == {f, g}

Leaf(field, op) == Compares(Key(field, op, "named"))
In(field)       == Compare(field, "in", Key(field, "eq", "named"))
Only(l)         == [kind |-> "leaves", of |-> <<l>>]
Of(kind, cs)    == [kind |-> kind, of |-> cs]

A == Only(Leaf(f, "eq"))
B == Only(In(g))
C == Only(Leaf(g, "null"))

NotNil == Only(Compare(f, "neq", Nil))

Nulls == [kind |-> "leaves", of |-> <<Leaf(f, "notnull"), Leaf(g, "null")>>]

Inner == {A, Nulls, Of("and", <<A, B>>), Of("or", <<B, C>>), Of("or", <<>>)}

MCConditions == Inner \cup {B, NotNil} \cup {Of(kind, cs) : kind \in Constraints, cs \in Inner \X Inner}

MCHeight ==
    [c \in MCConditions |-> IF ~IsNode(c) \/ c \in Inner THEN 1 ELSE 2]

MCKeys ==
    {Key(f, "eq", "named"), Key(f, "neq", "named"), Key(f, "notnull", "named"), Key(f, "null", "named"),
     Key(f, "gt", "Camel"), Key(g, "eq", "named"), Key(g, "lt", "named"), Key(h, "begins", "named")}

(* Keys that are taken for others, or from which one filter is made of two.   *)
MCTwisted ==
    {{Key(f, "eq", "named"), Key(f, "begins", "named"), Key(f, "has", "named")},
     {Key(f, "eq", "named"), Key(f, "ends", "named"), Key(g, "gte", "named")},
     {Key(f, "eq", "named"), Key(f, "eq", "Camel"), Key(f, "lte", "named")},
     {Key(g, "lt", "Camel"), Key(g, "not", "Camel"), Key(g, "lt", "named")},
     {Key(f, "null", "Camel"), Key(f, "notnull", "named"), Key(f, "eq", "named")},
     {Key(h, "eq", "camel"), Key(h, "ends", "named")},
     {Key(h, "eq", "named"), Key(h, "begins", "named"), Key(h, "ends", "named")},
     {Key(h, "eq", "camel"), Key(h, "eq", "Camel"), Key(h, "gt", "named")}}

(* A key has one value.                                                     *)
MCRequests ==
    {{}} \cup MCTwisted
      \cup {r \in {{k, l} : k, l \in MCKeys} :
        \A k \in r : k.op = "null" => [k EXCEPT !.op = "notnull"] \notin r}
=============================================================================
