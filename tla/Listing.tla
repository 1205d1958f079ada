------------------------------ MODULE Listing -------------------------------
(***************************************************************************)
(* Paging with the criteria of Query: the database evaluates the text Build  *)
(* makes of the filters a query string had.                                 *)
(***************************************************************************)
EXTENDS Query, Paging

CONSTANT Text    \* the columns that hold text, which alone may be compared by a like

(* A row has comparisons a condition can make, and what equals a value ends   *)
(* with it (a backslash in the value, which a like takes out, left aside).    *)
ASSUME ListingAssumption ==
    /\ Text \subseteq Fields
    /\ \A row \in Rows :
         /\ Facts[row] \subseteq Comparisons
         /\ \A c \in Facts[row] : c.op = "eq" => [c EXCEPT !.op = "ends"] \in Facts[row]

clauseVars == <<asked, where>>

allVars == <<vars, pagingVars>>

(* What the where clause is true of, in the text Build makes of the criteria: *)
(* one set, if the clause means the same in whatever order the maps come.    *)
Matching ==
    {LET clause == Build(order)
     IN  {row \in Rows : clause.reads = <<>> \/ clause.holds[Facts[row]]} : order \in RangeOrders}

(* The database refuses a like on a column that is not text.                 *)
LikesAreOfText == \A c \in AllAsked : c.op \in LikeOps => c.field \in Text
-----------------------------------------------------------------------------
ListingInit == Init /\ PagingInit

(* A builder filled by hand, or from a query string, without a Select.       *)
OnlyBuild == stage = "idle" /\ Next /\ UNCHANGED pagingVars

ListingNext ==
    \/ OnlyBuild
    \/ asked = <<>> /\ (\E p \in Plans : Begin(p)) /\ UNCHANGED clauseVars
    \/ LoadSearch /\ LoadQuery
    \/ UseSearch /\ FromUrlParams
    \/ /\ stage = "built"
       /\ \E C \in Matching : (SelectRows(C) /\ LikesAreOfText) \/ SelectFails(C)
       /\ UNCHANGED clauseVars
    \/ (SelectCount \/ CountFails \/ EndOfList) /\ UNCHANGED clauseVars
    \/ (NextPage \/ AskAgain) /\ asked' = <<>> /\ where' = <<>>
    \/ Others /\ UNCHANGED clauseVars

ListingSpec == ListingInit /\ [][ListingNext]_allVars
-----------------------------------------------------------------------------
(* Listing keeps the promises of Paging: the clause is made of the filters    *)
(* that were loaded and of nothing else, and where the filters all arrive it *)
(* selects what they are true of, for every page and in every order of the   *)
(* maps.                                                                    *)
KeepsPromises == PagingSpec

=============================================================================
