----------------------------- MODULE MCService ------------------------------
(***************************************************************************)
(* Service with one busy instance, and with two that may share a name or an    *)
(* identifier: the automatic one of a service is the name of another.       *)
(***************************************************************************)
EXTENDS Service

CONSTANTS i1, i2, i3, r, t, w1, w2

MCInstances == {i1, i2, i3}
MCNames     == {"a", "a-h-1"}
MCHosts     == {"h-1"}
MCIds       == {"a", "a-h-1", "a-h-1-h-1"}
MCAutoId    == [n \in MCNames |-> [host \in MCHosts |-> IF n = "a" THEN "a-h-1" ELSE "a-h-1-h-1"]]
MCRetries   == {r}
MCTimeouts  == {t}
MCWrites    == {w1, w2}
MCNilWrites == {w2}

Env(consulSet, id, auto, name) ==
    [consul |-> consulSet, id |-> id, auto |-> auto, name |-> name, host |-> "h-1"]

Envs == {Env(FALSE, None, FALSE, "a"), Env(TRUE, None, FALSE, "a"), Env(TRUE, None, FALSE, "a-h-1"),
         Env(TRUE, None, TRUE, "a"), Env(TRUE, "a", FALSE, "a-h-1")}

MCSetups ==
    {[i \in {i1} |-> Env(TRUE, None, FALSE, "a")]} \cup
    {[i \in {i2} |-> Env(FALSE, None, FALSE, "a")]} \cup
    {[i \in {i2, i3} |-> IF i = i2 THEN Env(TRUE, None, FALSE, "a") ELSE e] : e \in Envs}
=============================================================================
