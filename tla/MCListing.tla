----------------------------- MODULE MCListing -----------------------------
(***************************************************************************)
(* Listing over three rows: f tells them apart, g does not.  int64 has three *)
(* bits, so that the offset of page 3 of two rows wraps.                    *)
(***************************************************************************)
EXTENDS Listing, MCQuery

CONSTANTS r1, r2, r3

MCRows == {r1, r2, r3}

MCTables == {MCRows, {r1, r3}}

Ranks(a, b, c) == [r \in MCRows |-> IF r = r1 THEN a ELSE IF r = r2 THEN b ELSE c]

MCValue == [x \in MCFields |-> IF x = f THEN Ranks(3, 1, 2) ELSE Ranks(1, 1, 2)]

MCText == {g, h}

Everything == {}
SameG      == {Key(g, "eq", "named"), Key(f, "neq", "named")}
SameF      == {Key(f, "eq", "named")}
NullOnly   == {Key(f, "null", "named"), Key(g, "lt", "named")}

(* f is a number, which no like is true of; the facts are for the model only.  *)
EndsLike(field) == Compare(field, "ends", Key(field, "eq", "named"))

MCFacts ==
    [r \in MCRows |->
        IF r = r3 THEN {Leaf(g, "lt"), Leaf(f, "neq")}
        ELSE {Leaf(g, "eq"), EndsLike(g), Leaf(f, "neq"), Leaf(f, "eq"), EndsLike(f)}]

By(x, y) == [s \in MCFields |-> IF s = f THEN x ELSE y]

Plan(filters, sort_, limit, by, first) ==
    [filters |-> filters, sort |-> sort_, limit |-> limit, by |-> by, first |-> first]

(* Lists a property speaks of, and then: no order, two sort keys, a limit    *)
(* that is no number, a filter that is dropped, an offset that wraps.        *)
MCPlans ==
    {Plan(Everything, By("asc", "junk"), 1, "page", 1),
     Plan(Everything, By("desc", NoKey), NoKey, "offset", 1),
     Plan(SameG, By("asc", NoKey), 1, "page", 1),
     Plan(SameG, By(NoKey, "asc"), 2, "page", 1),
     Plan(SameF, By("asc", NoKey), 2, "page", 1),
     Plan(Everything, By("asc", "desc"), 2, "page", 1),
     Plan(Everything, By("junk", NoKey), 0, "page", 1),
     Plan(NullOnly, By("asc", NoKey), 2, "page", 1),
     Plan(Everything, By("asc", NoKey), 2, "page", 3)}
=============================================================================
