----------------------------- MODULE MCGateway ------------------------------
(***************************************************************************)
(* Gateway with two calls of one routine, and with two calls of one kept       *)
(* client, and with one of each.                                            *)
(***************************************************************************)
EXTENDS Gateway

CONSTANTS p1, p2, d1, d2

MCDirect  == {d1, d2}
MCProxied == {p1, p2}
MCCalls   == {p1, p2, d1, d2}
MCNumbers == {-1, 0, 1, 2, 3, 6, 7, 9}

MCPlans == {{p1, p2}, {d1, d2}, {p1, d2}}

Asked(route, guarded, url, scheme, token, body, params) ==
    [route |-> route, guarded |-> guarded, url |-> url, scheme |-> scheme, token |-> token,
     body |-> body, id |-> TRUE, params |-> params]

ListOf(limit, offset, page) == [limit |-> limit, offset |-> offset, page |-> page, token |-> None]

(* What a routine forwards: a parameter or none to a route of its kind, one     *)
(* behind a guard that finds its token in the body, and urls that fail.       *)
Forwarded ==
    {Asked("body", FALSE, "ok", "none", 1, body, Unset) : body \in {"none", "valid", "unencodable"}} \cup
    {Asked("body", FALSE, url, "none", 1, "valid", Unset) : url \in {"bad", "none"}} \cup
    {Asked("body", TRUE, "ok", "body", 1, "valid", Unset),
     Asked("basic", TRUE, "ok", "body", 1, "valid", Unset),
     Asked("list", FALSE, "ok", "none", 1, "valid", Unset)}

(* Lists of the kept client: pages whose offset fits, wraps to a negative and   *)
(* to a positive number, and numbers that are out of range.                   *)
Lists ==
    {Asked("list", TRUE, "ok", "session", 1, "none", ListOf(limit, None, page)) :
        limit \in {None, 0, 2}, page \in {3, 6, 7}} \cup
    {Asked("list", TRUE, "ok", "session", 1, "none", ListOf(None, offset, 3)) : offset \in {-1, 1}}

Others ==
    {Asked("one", TRUE, "ok", "query", Forged, "none", Unset)} \cup
    {Asked("body", guarded, "ok", "session", 1, body, Unset) :
        guarded \in BOOLEAN, body \in {"none", "malformed"}} \cup
    {[Asked("one", TRUE, "ok", "session", 1, "none", Unset) EXCEPT !.id = FALSE],
     Asked("basic", TRUE, "ok", "basic", 1, "valid", Unset),
     Asked("basic", TRUE, "bad", "basic", 1, "valid", Unset)}

(* What it is used for next.                                                *)
Again ==
    {Asked("list", TRUE, "ok", scheme, 1, "none", ListOf(None, None, 2)) :
        scheme \in {"none", "session"}} \cup
    {Asked("body", FALSE, "ok", "none", 1, "none", Unset)}

MCWishes ==
    [c \in MCCalls |-> IF c \in MCProxied THEN Forwarded
                       ELSE IF c = d1 THEN Lists \cup Others ELSE Again]
=============================================================================
