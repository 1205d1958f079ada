----------------------------- MODULE MCExchange -----------------------------
(***************************************************************************)
(* Exchange with two workers, as two workers may relate: on one exchange,    *)
(* on two exchanges of one connection, as two instances of one worker on     *)
(* connections of their own that share a queue, and as two workers whose     *)
(* keys, or whose exchanges, make one queue name.                           *)
(***************************************************************************)
EXTENDS Exchange

CONSTANTS w1, w2, q1, q2, p1, p2

MCWorkers      == {w1, w2}
MCConnections  == {"shared", "own"}
MCNames        == {"x", "y"}
MCKeys         == {"k", "l"}
MCQueues       == {q1, q2}
MCPublications == {p1, p2}

Conf(conn, name, key, queue) == [conn |-> conn, name |-> name, key |-> key, queue |-> queue]

First == Conf("shared", "x", "k", q1)

MCSetups ==
    {[w \in MCWorkers |-> IF w = w1 THEN First ELSE second] :
        second \in {Conf("shared", "x", "l", q2), Conf("shared", "y", "k", q2),
                    Conf("own", "x", "k", q1), Conf("own", "x", "l", q1),
                    Conf("shared", "y", "k", q1), Conf("own", "y", "l", q1)}}

(* The process ends, once, where the workers are two instances of one.        *)
MCMaxCrashes ==
    [s \in MCSetups |-> IF s[w2].conn = "own" /\ s[w2].key = "k" THEN 1 ELSE 0]
=============================================================================
