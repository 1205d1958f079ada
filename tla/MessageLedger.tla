--------------------------- MODULE MessageLedger ---------------------------
(***************************************************************************)
(* What a queue worker promises about the messages of its queue, with no   *)
(* goroutine, channel or acknowledgement in sight.  A published message is *)
(* pending until the worker has run the processor on it.  A run that failed *)
(* leaves an error owed to the worker's errorFunc, which settles it, with   *)
(* or without publishing a new message in its place.  The only way a debt  *)
(* is forgotten is that the whole process ends.                            *)
(***************************************************************************)
CONSTANT Deliveries

VARIABLE ledger

LedgerStatus == {"absent", "pending", "owed", "settled", "lost"}

LedgerInit == ledger = [d \in Deliveries |-> "absent"]

In(d, s) == ledger[d] = s

Become(d, s) == ledger' = [ledger EXCEPT ![d] = s]

Enter(e) == In(e, "absent") /\ Become(e, "pending")

Settle(d) == In(d, "pending") /\ Become(d, "settled")

Owe(d) == In(d, "pending") /\ Become(d, "owed")

Resolve(d) == In(d, "owed") /\ Become(d, "settled")

(* errorFunc asked for a retry: the new message enters the queue in the     *)
(* same step that discharges the debt.                                     *)
Replace(d, e) ==
    /\ In(d, "owed")
    /\ In(e, "absent")
    /\ ledger' = [ledger EXCEPT ![d] = "settled", ![e] = "pending"]

(* The process ends: every debt is lost at once, nothing pending is.        *)
ProcessEnds ==
    ledger' = [d \in Deliveries |-> IF In(d, "owed") THEN "lost" ELSE ledger[d]]

LedgerNext ==
    \/ \E d \in Deliveries : Enter(d) \/ Settle(d) \/ Owe(d) \/ Resolve(d)
    \/ \E d, e \in Deliveries : Replace(d, e)
    \/ ProcessEnds

LedgerSpec == LedgerInit /\ [][LedgerNext]_ledger
=============================================================================
