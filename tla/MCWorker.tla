------------------------------ MODULE MCWorker ------------------------------
(***************************************************************************)
(* Worker on a handful of publications, one of them undecodable.           *)
(***************************************************************************)
EXTENDS Worker

CONSTANTS d1, d2, d3

MCDeliveries  == {d1, d2, d3}
MCUndecodable == {d3}
=============================================================================
