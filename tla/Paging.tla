------------------------------- MODULE Paging -------------------------------
(***************************************************************************)
(* query, from a URL to rows: SearchWithUrlParams for the pages of a list,   *)
(* asked one after the other while others write to the table.               *)
(*                                                                         *)
(* It continues UrlSearch with the other keys of the query string (limit,    *)
(* offset, page, sort_<field>) and with Select's two queries.  Which rows    *)
(* the where clause selects is left open, but for filters that all arrive.   *)
(***************************************************************************)
EXTENDS UrlSearch

CONSTANTS
    Rows,         \* the rows there may be
    Tables,       \* what the table may hold when a list is begun
    Value,        \* Value[field][row]: what sorting compares
    Facts,        \* Facts[row]: the comparisons that are true of a row
    Plans,        \* [filters, sort, limit, by, first]: a list as it is asked for
    NoKey,        \* the key is not in the query string
    SelectLimit,  \* SELECT_LIMIT: SQL_QUERY_BUILDER_SELECT_LIMIT or 20
    MaxInt,       \* the largest int64
    MaxPages,     \* bound: pages of one list
    MaxWrites     \* bound: writes to the table while it is listed

ASSUME PagingAssumption ==
    /\ \A t \in Tables : t \subseteq Rows /\ IsFiniteSet(t)
    /\ \A p \in Plans : /\ p.filters \in Requests
                        /\ p.limit = NoKey \/ p.limit \in Int
                        /\ p.first \in Nat \ {0}
    /\ \A f \in Fields, row \in Rows : Value[f][row] \in Int
    /\ SelectLimit \in Nat /\ MaxInt \in Nat \ {0} /\ SelectLimit <= MaxInt
    /\ NoKey \notin Int /\ NoKey \notin {"asc", "desc"}

VARIABLES
    table,    \* the rows of the relation
    plan,     \* what is asked for, <<>> when nobody lists
    page,     \* the page asked for, from 1
    bounds,   \* urlSearch.limit and offset
    sort,     \* urlSearch.sort
    builder,  \* sqlBuilder: limit, offset, orderBy, count
    stage,    \* how far the request is
    chosen,   \* the rows the where clause selects, of those there may be
    rows,     \* Select's out
    total,    \* Select's count
    got,      \* the pages so far, one after the other
    writes    \* since the list was begun: rows inserted and deleted, and
              \* the number of them between the two queries of Select

pagingVars == <<table, plan, page, bounds, sort, builder, stage, chosen, rows, total,
                got, writes>>

SortTypes == {"asc", "desc"}

NoWrites == [inserted |-> {}, deleted |-> {}, between |-> 0]
-----------------------------------------------------------------------------
(* LoadBoundaries.                                                          *)

(* int64 arithmetic; a key that is no number is 0, which Plans may give.     *)
Int64(n) == ((n + MaxInt + 1) % (2 * (MaxInt + 1))) - (MaxInt + 1)

Boundaries(limit, offset, pg) ==
    [limit  |-> limit,
     offset |-> IF offset = 0 /\ pg > 1 THEN Int64((pg - 1) * limit) ELSE offset]

(* Slip: pages are counted from zero.                                        *)
LoadBoundariesFromZero(p, pg) ==
    LET limit == IF p.limit = NoKey THEN SelectLimit ELSE p.limit
    IN  IF p.by = "page" THEN Boundaries(limit, 0, pg + 1)
        ELSE Boundaries(limit, (pg - 1) * limit, 0)

(* A client names its page, or the offset at which it begins.                *)
LoadBoundaries(p, pg) ==
    LET limit == IF p.limit = NoKey THEN SelectLimit ELSE p.limit
    IN  IF p.by = "page" THEN Boundaries(limit, 0, pg)
        ELSE Boundaries(limit, (pg - 1) * limit, 0)

(* A key sort_<field> with another value than asc or desc is as good as none. *)
LoadFieldSort(p) ==
    [f \in Fields |-> IF p.sort[f] \in SortTypes THEN p.sort[f] ELSE NoKey]

Sorted == {f \in Fields : sort[f] # NoKey}
-----------------------------------------------------------------------------
(* The builder.                                                             *)

SQLBuilder == [limit |-> SelectLimit, offset |-> 0, orderBy |-> <<>>, count |-> FALSE]

Limit(b, n)  == IF n > 0 THEN [b EXCEPT !.limit = n] ELSE b
Offset(b, n) == IF n > 0 THEN [b EXCEPT !.offset = n] ELSE b
Count(b)     == [b EXCEPT !.count = TRUE]

SortKey(f) == [field |-> f, type |-> sort[f]]

(* The map of the sort keys is ranged over in the order fs.                  *)
UrlFieldSort(b, fs) == [b EXCEPT !.orderBy = [i \in DOMAIN fs |-> SortKey(fs[i])]]

(* Slip: the where clause is left out of the count.                          *)
CountedAll == table

(* The count has the same where clause, and neither limit nor offset.         *)
Counted == table \cap chosen

(* a comes before b by the sort keys, the first that tells them apart.       *)
Precedes(keys, a, b) ==
    \E i \in DOMAIN keys :
        /\ \A j \in 1 .. i - 1 : Value[keys[j].field][a] = Value[keys[j].field][b]
        /\ IF keys[i].type = "asc" THEN Value[keys[i].field][a] < Value[keys[i].field][b]
           ELSE Value[keys[i].field][a] > Value[keys[i].field][b]

(* Rows that no sort key tells apart come in any order.                      *)
InOrder(keys, S) ==
    {s \in SetToSeqs(S) : \A i, j \in DOMAIN s : i < j => ~Precedes(keys, s[j], s[i])}

(* selectQueryString leaves out a limit and an offset that are not positive. *)
Window(b, s) ==
    LET left == SubSeq(s, b.offset + 1, Len(s))
    IN  IF 0 < b.limit /\ b.limit < Len(left) THEN SubSeq(left, 1, b.limit) ELSE left
-----------------------------------------------------------------------------
(* A plan means the rows of which its filters are true.  The filters of a     *)
(* plain query string all arrive as UrlFiltersKept says.                     *)
Arriving == plan.filters = {} \/ Plain(plan.filters)

Wanted(row) == \A k \in plan.filters : Compares(k) \in Facts[row]

PagingInit ==
    /\ SearchInit
    /\ table = {}
    /\ plan = <<>> /\ page = 0 /\ got = <<>> /\ writes = NoWrites
    /\ bounds = [limit |-> 0, offset |-> 0]
    /\ sort = [f \in Fields |-> NoKey]
    /\ builder = SQLBuilder
    /\ stage = "idle" /\ chosen = {} /\ rows = <<>> /\ total = 0

(* A search that no list is read with.                                       *)
OnlySearch == stage = "idle" /\ (LoadUrl \/ UseParams) /\ UNCHANGED pagingVars

Begin(p) ==
    /\ stage = "idle" /\ status = "new"
    /\ table' \in Tables
    /\ plan' = p /\ page' = p.first /\ stage' = "asked"
    /\ UNCHANGED <<searchVars, bounds, sort, builder, chosen, rows, total, got, writes>>

LoadSearch ==
    /\ stage = "asked"
    /\ request' = plan.filters
    /\ LoadUrl
    /\ bounds' = LoadBoundaries(plan, page)
    /\ sort' = LoadFieldSort(plan)
    /\ stage' = "loaded"
    /\ UNCHANGED <<table, plan, page, builder, chosen, rows, total, got, writes>>

UseSearch ==
    /\ stage = "loaded"
    /\ UseParams
    /\ \E fs \in SetToSeqs(Sorted) :
         builder' = Count(Offset(Limit(UrlFieldSort(SQLBuilder, fs), bounds.limit), bounds.offset))
    /\ stage' = "built"
    /\ UNCHANGED <<table, plan, page, bounds, sort, chosen, rows, total, got, writes>>

(* Select has the text of the where clause made once, for both queries: the  *)
(* rows of C are those it is true of.                                       *)
Selects(C) == Arriving => C = {row \in Rows : Wanted(row)}

(* The query, and the loop over its rows.                                    *)
SelectRows(C) ==
    /\ stage = "built"
    /\ chosen' = C
    /\ \E s \in InOrder(builder.orderBy, table \cap C) : rows' = Window(builder, s)
    /\ stage' = "selected"
    /\ writes' = [writes EXCEPT !.between = 0]
    /\ UNCHANGED <<searchVars, table, plan, page, bounds, sort, builder, total, got>>

(* The query, the scanner or the cursor fails, after some of the rows.       *)
SelectFails(C) ==
    /\ stage = "built"
    /\ chosen' = C
    /\ \E s \in InOrder(builder.orderBy, table \cap C) :
         \E n \in 0 .. Len(Window(builder, s)) : rows' = SubSeq(Window(builder, s), 1, n)
    /\ stage' = "failed"
    /\ UNCHANGED <<searchVars, table, plan, page, bounds, sort, builder, total, got, writes>>

SelectCount ==
    /\ stage = "selected"
    /\ total' = IF builder.count THEN Cardinality(Counted) ELSE Len(rows)
    /\ stage' = "answered"
    /\ got' = got \o rows
    /\ UNCHANGED <<searchVars, table, plan, page, bounds, sort, builder, chosen, rows, writes>>

CountFails ==
    /\ stage = "selected" /\ builder.count
    /\ stage' = "failed"
    /\ UNCHANGED <<searchVars, table, plan, page, bounds, sort, builder, chosen, rows, total,
                   got, writes>>

(* A new request: another urlSearch, another builder.                        *)
Ask(pg) ==
    /\ page' = pg /\ stage' = "asked"
    /\ NewSearch
    /\ bounds' = [limit |-> 0, offset |-> 0] /\ sort' = [f \in Fields |-> NoKey]
    /\ builder' = SQLBuilder /\ chosen' = {} /\ rows' = <<>> /\ total' = 0
    /\ UNCHANGED <<table, plan, got, writes>>

(* The client goes on after a full page, asks again for one that failed, and *)
(* is through when a page is short.                                         *)
NextPage == stage = "answered" /\ Len(rows) >= bounds.limit /\ page < MaxPages /\ Ask(page + 1)

AskAgain == stage = "failed" /\ Ask(page)

EndOfList ==
    /\ stage = "answered" /\ Len(rows) < bounds.limit
    /\ stage' = "over"
    /\ UNCHANGED <<searchVars, table, plan, page, bounds, sort, builder, chosen, rows, total,
                   got, writes>>

(* Others write to the table, while it is listed.                            *)
Listed == stage \notin {"idle", "over"}

MayWrite ==
    Listed /\ Cardinality(writes.inserted) + Cardinality(writes.deleted) < MaxWrites

Between == IF stage = "selected" THEN writes.between + 1 ELSE writes.between

Insert(row) ==
    /\ MayWrite /\ row \notin table
    /\ table' = table \cup {row}
    /\ writes' = [writes EXCEPT !.inserted = @ \cup {row}, !.between = Between]
    /\ UNCHANGED <<searchVars, plan, page, bounds, sort, builder, stage, chosen, rows, total, got>>

Delete(row) ==
    /\ MayWrite /\ row \in table
    /\ table' = table \ {row}
    /\ writes' = [writes EXCEPT !.deleted = @ \cup {row}, !.between = Between]
    /\ UNCHANGED <<searchVars, plan, page, bounds, sort, builder, stage, chosen, rows, total, got>>

Others == \E row \in Rows : Insert(row) \/ Delete(row)

PagingNext ==
    \/ OnlySearch
    \/ \E p \in Plans : Begin(p)
    \/ LoadSearch \/ UseSearch
    \/ \E C \in SUBSET Rows : (SelectRows(C) \/ SelectFails(C)) /\ Selects(C)
    \/ SelectCount \/ CountFails
    \/ NextPage \/ AskAgain \/ EndOfList
    \/ Others

(* What a list promises, whatever the where clause is made of.                *)
PagingSpec == PagingInit /\ [][PagingNext]_<<searchVars, pagingVars>>
-----------------------------------------------------------------------------
(* One sort key, and no two rows have the same value of it.                  *)
SortedByKey ==
    \E f \in Fields :
        /\ Sorted = {f}
        /\ \A a, b \in Rows : Value[f][a] = Value[f][b] => a = b

Fits(pg) == bounds.limit > 0 /\ (pg - 1) * bounds.limit <= MaxInt

Holds(s, row) == Cardinality({i \in DOMAIN s : s[i] = row})

(* A list sorted by a unique column and read page by page to its end has     *)
(* every row that matched all along, unless something was deleted, and no    *)
(* row twice, unless something was inserted; it has none that never matched. *)
(* LoadBoundaries, Limit, Offset and Select have to agree for that.         *)
PagesCoverList ==
    stage = "over" /\ plan.first = 1 /\ Arriving /\ SortedByKey /\ Fits(page) =>
        /\ \A i \in DOMAIN got : Wanted(got[i])
        /\ \A row \in table \ writes.inserted :
              Wanted(row) /\ writes.deleted = {} => Holds(got, row) > 0
        /\ \A row \in Rows : writes.inserted = {} => Holds(got, row) <= 1

(* The total that comes with a page is the total the page is of, unless the   *)
(* table was written to between the two queries: a client that computes the   *)
(* length of page n from limit and total gets the number of rows it was sent. *)
TotalMatchesPage ==
    stage = "answered" /\ Fits(page) /\ writes.between = 0 =>
        LET rest == total - (page - 1) * bounds.limit
        IN  Len(rows) = IF rest < 0 THEN 0 ELSE IF rest < bounds.limit THEN rest ELSE bounds.limit

=============================================================================
