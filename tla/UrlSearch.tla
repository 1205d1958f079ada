------------------------------ MODULE UrlSearch -----------------------------
(***************************************************************************)
(* urlSearch of query: the filters of a query string, read key by key, and   *)
(* what they are when the criteria are made of them.                        *)
(***************************************************************************)
EXTENDS Integers, Sequences, SequencesExt, FiniteSets

CONSTANTS
    Fields,      \* columns: one list to look up and to compare, as Load has it
    OneWord,     \* those named by one word: name, and not created_at
    Requests,    \* query strings: sets of keys
    Nil          \* no value

NullOps == {"null", "notnull"}
LikeOps == {"ends", "has", "begins"}
UrlOps  == {"eq", "gt", "gte", "lt", "lte", "not", "neq"} \cup NullOps \cup LikeOps

VARIABLES
    request,     \* the query string
    search,      \* urlSearch
    status       \* "new", "loaded", "used", or "panicked"

searchVars == <<request, search, status>>
-----------------------------------------------------------------------------
(* A key is the field alone (eq), field_null (null, notnull), field_gt..., or *)
(* ~field, ~field~, field~ (ends, has, begins).  Its field is spelt as it is  *)
(* named, in camel case (Name, CreatedAt), or in camel case behind a tilde,   *)
(* which strcase.ToCamel drops: createdAt, but name once more.              *)

Spellings == {"named", "Camel", "camel"}

Keys == [field : Fields, op : UrlOps, spelt : Spellings]

Key(f, op, spelt) == [field |-> f, op |-> op, spelt |-> spelt]

(* null and notnull are the values of one key, and a key has one value.       *)
ASSUME UrlAssumption ==
    /\ IsFiniteSet(Fields) /\ OneWord \subseteq Fields
    /\ Requests \subseteq SUBSET Keys
    /\ Nil \notin Keys
    /\ \A r \in Requests, f \in Fields, spelt \in Spellings :
          ~({Key(f, "null", spelt), Key(f, "notnull", spelt)} \subseteq r)

(* A filter compares a field with the value of a key, or asks for null.       *)
Compare(f, op, value) == [field |-> f, op |-> op, of |-> value]

(* What a key asks for.                                                     *)
Compares(k) == Compare(k.field, k.op, IF k.op \in NullOps THEN Nil ELSE k)

(* The maps of the search: fields[f] is the key f is to be equal to.          *)
NoSearch == [fields |-> [f \in Fields |-> {}], made |-> FALSE, null |-> {}, compared |-> {}]

Lookup(r, f) ==
    IF Key(f, "eq", "named") \in r THEN {Key(f, "eq", "named")}
    ELSE r \cap {Key(f, "eq", "Camel")}

LoadFieldLookups(s, r) ==
    [s EXCEPT !.made = TRUE,
              !.fields = [f \in Fields |-> IF Lookup(r, f) # {} THEN Lookup(r, f) ELSE @[f]]]

(* Slip: neq is not looked for either.                                       *)
LookedFewer == <<"gt", "gte", "lt", "gte", "not">>

(* The operators looked for: gte twice, and lte not at all.                  *)
Looked == <<"gt", "gte", "lt", "gte", "not", "neq">>

(* One of these in camel case goes to the lookups, and the last one wins.     *)
StrayOps == <<"null", "notnull">> \o Looked

Named(r, f, ops) == \E op \in ops : Key(f, op, "named") \in r

Strays(r, f) ==
    {i \in DOMAIN StrayOps :
        LET op == StrayOps[i]
        IN  /\ Key(f, op, "Camel") \in r
            /\ ~Named(r, f, {op})
            /\ op \in NullOps => ~Named(r, f, NullOps)}

(* The likes tried for a field, with the key each takes its value from: each  *)
(* of ~field, ~field~, field~ and then ToCamel of it, which is a key that     *)
(* asks for equality (that of ~field~ is that of ~field).                    *)
Tried(f) ==
    LET lower == Key(f, "eq", IF f \in OneWord THEN "named" ELSE "camel")
    IN  <<Compare(f, "ends", Key(f, "ends", "named")), Compare(f, "ends", lower),
          Compare(f, "has", Key(f, "has", "named")),
          Compare(f, "begins", Key(f, "begins", "named")),
          Compare(f, "begins", Key(f, "eq", "Camel"))>>

(* The first whose key there is.                                            *)
Likes(r, f) ==
    {Tried(f)[i] : i \in {i \in DOMAIN Tried(f) :
        Tried(f)[i].of \in r /\ \A j \in 1 .. i - 1 : Tried(f)[j].of \notin r}}

LoadFieldComparisons(s, r) ==
    LET named(ops) == {Compares(k) : k \in {k \in r : k.op \in ops /\ k.spelt = "named"}}
    IN  [s EXCEPT
            !.null = named(NullOps),
            !.fields = [f \in Fields |->
               IF Strays(r, f) = {} THEN @[f]
               ELSE {Key(f, StrayOps[i], "Camel") :
                       i \in {i \in Strays(r, f) : \A j \in Strays(r, f) : j <= i}}],
            !.compared = named(ToSet(Looked)) \cup UNION {Likes(r, f) : f \in Fields}]

(* Writing a stray lookup needs the map LoadFieldLookups makes.              *)
Panics(s, r) == ~s.made /\ \E f \in Fields : Strays(r, f) # {}

Given(s) == {f \in Fields : s.fields[f] # {}}

GetFieldNullables(s) == IF Given(s) = {} THEN {} ELSE s.null

UrlFieldParams(s) ==
    GetFieldNullables(s) \cup s.compared
      \cup UNION {{Compare(f, "eq", k) : k \in s.fields[f]} : f \in Fields}
-----------------------------------------------------------------------------
SearchInit ==
    /\ request = {}
    /\ search = NoSearch
    /\ status = "new"

(* UrlFields.SearchParams loads the comparisons first, urlSearch.Load the    *)
(* lookups.                                                                 *)
LoadUrl ==
    \E r \in Requests, comparisonsFirst \in BOOLEAN :
        LET early == IF comparisonsFirst THEN NoSearch ELSE LoadFieldLookups(NoSearch, r)
            s     == LoadFieldComparisons(early, r)
        IN  /\ status = "new"
            /\ request' = r
            /\ search' = IF comparisonsFirst THEN LoadFieldLookups(s, r) ELSE s
            /\ status' = IF Panics(early, r) THEN "panicked" ELSE "loaded"

(* The search is handed to a builder.                                        *)
UseParams == status = "loaded" /\ status' = "used" /\ UNCHANGED <<request, search>>

(* SearchUrl: a search of its own for every request.                         *)
NewSearch == request' = {} /\ search' = NoSearch /\ status' = "new"
-----------------------------------------------------------------------------
(* Two keys of which one like is made.                                      *)
Rivals(k, l) ==
    /\ k.field = l.field /\ k.op \in LikeOps
    /\ l.op \in LikeOps \ {k.op} \/ (l.op = "eq" /\ l.field \in OneWord /\ k.op # "ends")

(* Query strings spelt as the fields are named, with an exact match among      *)
(* them, without lte, which is never looked for, and without rivals.         *)
Plain(r) ==
    /\ \E k \in r : k.op = "eq"
    /\ \A k \in r : /\ k.spelt = "named" /\ k.op # "lte"
                    /\ \A l \in r : ~Rivals(k, l)

(* A text that equals a value ends with it.                                  *)
Implied(r, c) == \E k \in r : k.op = "eq" /\ c = Compare(k.field, "ends", k)

(* Of every query string that is loaded, the comparisons looked for arrive,   *)
(* and nothing is compared but a field with a value given for that field.     *)
(* Of a plain one all filters arrive, and none beside them but the like that  *)
(* an exact match implies.  (query/utils.go:10-16 has null filters arrive     *)
(* without an exact match too, and exact matches make no like.)              *)
UrlFiltersKept ==
    status = "loaded" =>
        LET params == UrlFieldParams(search)
            asks   == {Compares(k) : k \in request}
        IN  /\ \A k \in request :
                  k.spelt = "named" /\ k.op \in {"gt", "gte", "lt", "not", "neq"}
                    => Compares(k) \in params
            /\ \A c \in params : c \in asks \/ \E k \in request : k.field = c.field /\ k = c.of
            /\ Plain(request) =>
                 asks \subseteq params /\ \A c \in params : c \in asks \/ Implied(request, c)
=============================================================================
