---------------------------- MODULE WorkerProofs ----------------------------
(***************************************************************************)
(* What Worker guarantees for any number of deliveries and restarts: its    *)
(* typing, its safety invariants, and that it implements the ledger.       *)
(***************************************************************************)
EXTENDS Worker, TLAPS

USE DEF Up, Ended, Final, Off, Idle, Gone, Holding, Subscribed, process, hands

(* Every step leaves the state well typed.                                  *)
LEMMA TypeStep == ASSUME TypeOK, [Next]_vars PROVE TypeOK'
<1> USE DeliveriesAssumption DEF TypeOK
<1>1. ASSUME NEW d \in Deliveries, Publish(d) \/ Deliver(d) PROVE TypeOK'
  BY <1>1 DEF Publish, Deliver
<1>0. CASE ConsumerCancelled \/ ChannelCloses
  BY <1>0 DEF ConsumerCancelled, ChannelCloses
<1>2. CASE Start
  BY <1>2 DEF Start, StartFails, ConsumeShared, PublisherFails, StartLoops
<1>3. CASE Pump
  BY <1>3 DEF Pump, PumpTake, PumpReturns
<1>4. CASE Receiver
  <2>1. CASE Receive
    BY <2>1 DEF Receive
  <2>2. CASE Unmarshal
    BY <2>2 DEF Unmarshal
  <2>3. CASE Succeed
    BY <2>3 DEF Succeed
  <2>4. CASE Fail
    BY <2>4 DEF Fail
  <2>5. CASE Ack
    BY <2>5 DEF Ack
  <2>6. CASE ReceiverDone
    BY <2>6 DEF ReceiverDone
  <2>7. QED
    BY <1>4, <2>1, <2>2, <2>3, <2>4, <2>5, <2>6 DEF Receiver
<1>5. CASE Handler
  <2>1. ASSUME NEW d \in Deliveries, TakeError(d) PROVE TypeOK'
    BY <2>1 DEF TakeError
  <2>2. ASSUME NEW d \in Deliveries, Republish(d) PROVE TypeOK'
    BY <2>2 DEF Republish
  <2>3. CASE GiveUp
    BY <2>3 DEF GiveUp
  <2>4. CASE AskRetry
    BY <2>4 DEF AskRetry
  <2>5. CASE RepublishFails
    BY <2>5 DEF RepublishFails
  <2>6. CASE HandlerDone
    BY <2>6 DEF HandlerDone
  <2>7. QED
    BY <1>5, <2>1, <2>2, <2>3, <2>4, <2>5, <2>6 DEF Handler
<1>6. CASE CancelContext \/ StopCancels \/ StopCloses
  BY <1>6 DEF CancelContext, StopCancels, StopCloses
<1>7. CASE StopPanics \/ SenderPanics \/ Crash
  <2>1. PICK how \in Ended : ProcessEnds(how)
    BY <1>7 DEF StopPanics, SenderPanics, Crash
  <2>2. broker' \in [Deliveries -> {"absent", "queued", "unacked", "acked"}]
    BY <2>1 DEF ProcessEnds
  <2>3. fate' \in [Deliveries -> Final \cup {"open", "failed", "lost"}]
    BY <2>1 DEF ProcessEnds
  <2>4. QED
    BY <2>1, <2>2, <2>3 DEF ProcessEnds
<1>8. CASE Restart
  <2>0. restarts \in 0..MaxRestarts /\ restarts < MaxRestarts
        /\ restarts' = restarts + 1 /\ MaxRestarts \in Nat
    BY <1>8 DEF Restart
  <2>1. restarts' \in 0..MaxRestarts
    BY ONLY <2>0
  <2>2. /\ UNCHANGED <<broker, fate, done, errs, stopping>>
        /\ UNCHANGED hands
        /\ life' = "starting" /\ stopped' = FALSE
    BY <1>8 DEF Restart
  <2>3. UNCHANGED <<consumer, buffer, pump, receiver, handler, senders>>
    BY <2>2
  <2>4. QED
    BY ONLY TypeOK, <2>1, <2>2, <2>3 DEF TypeOK
<1>9. CASE UNCHANGED vars
  BY <1>9 DEF vars
<1>10. QED
  BY <1>0, <1>1, <1>2, <1>3, <1>4, <1>5, <1>6, <1>7, <1>8, <1>9 DEF Next, Stop

(* So does the initial one.                                                 *)
LEMMA InitTyped == Init => TypeOK
<1>1. 0 \in 0..MaxRestarts
  BY DeliveriesAssumption
<1>2. QED
  BY <1>1 DEF Init, TypeOK

(* Typing holds in every reachable state.                                   *)
THEOREM TypeCorrect == Spec => []TypeOK
BY InitTyped, TypeStep, PTL DEF Spec
-----------------------------------------------------------------------------
(* The four invariants hold together with the bookkeeping they rest on.     *)
IInv == TypeOK /\ AckedIsDecided /\ FailureCarried /\ HeldOnce
          /\ PanicOnlyAfterStop /\ Bookkeeping

Parts == AckedIsDecided /\ FailureCarried /\ HeldOnce /\ PanicOnlyAfterStop
           /\ Bookkeeping

(* The end of the process, however it comes about, keeps them: a panic needs *)
(* only that Stop was called before it.                                     *)
LEMMA EndKeepsParts ==
  ASSUME IInv, NEW how \in Ended, ProcessEnds(how), how = "panicked" => stopped
  PROVE  Parts'
BY DeliveriesAssumption
   DEF IInv, Parts, TypeOK, ProcessEnds, AckedIsDecided, FailureCarried, HeldOnce,
       PanicOnlyAfterStop, Bookkeeping

(* Every step of processIncoming keeps them: only it acknowledges, and only  *)
(* what it holds.                                                           *)
LEMMA ReceiverKeepsParts == ASSUME IInv, Receiver PROVE Parts'
<1> USE DeliveriesAssumption
    DEF IInv, Parts, TypeOK, AckedIsDecided, FailureCarried, HeldOnce,
        PanicOnlyAfterStop, Bookkeeping
<1>1. CASE Receive
  BY <1>1 DEF Receive
<1>2. CASE Unmarshal
  BY <1>2 DEF Unmarshal
<1>3. CASE Succeed
  BY <1>3 DEF Succeed
<1>4. CASE Fail
  BY <1>4 DEF Fail
<1>5. CASE Ack
  BY <1>5 DEF Ack
<1>6. CASE ReceiverDone
  BY <1>6 DEF ReceiverDone
<1>7. QED
  BY <1>1, <1>2, <1>3, <1>4, <1>5, <1>6 DEF Receiver

(* Every step of handleErrors keeps them: a failure passes from a sender to  *)
(* the handler and from there to its outcome.                               *)
LEMMA HandlerKeepsParts == ASSUME IInv, Handler PROVE Parts'
<1> USE DeliveriesAssumption
    DEF IInv, Parts, TypeOK, AckedIsDecided, FailureCarried, HeldOnce,
        PanicOnlyAfterStop, Bookkeeping
<1>1. ASSUME NEW d \in Deliveries, TakeError(d) PROVE Parts'
  BY <1>1 DEF TakeError
<1>2. ASSUME NEW d \in Deliveries, Republish(d) PROVE Parts'
  BY <1>2 DEF Republish
<1>3. CASE GiveUp
  BY <1>3 DEF GiveUp
<1>4. CASE AskRetry
  BY <1>4 DEF AskRetry
<1>5. CASE RepublishFails
  BY <1>5 DEF RepublishFails
<1>6. CASE HandlerDone
  BY <1>6 DEF HandlerDone
<1>7. QED
  BY <1>1, <1>2, <1>3, <1>4, <1>5, <1>6 DEF Handler

(* The remaining steps keep them.                                           *)
LEMMA StepKeepsParts == ASSUME IInv, [Next]_vars PROVE Parts'
<1> USE DeliveriesAssumption
    DEF IInv, Parts, TypeOK, AckedIsDecided, FailureCarried, HeldOnce,
        PanicOnlyAfterStop, Bookkeeping
<1>1. ASSUME NEW d \in Deliveries, Publish(d) PROVE Parts'
  BY <1>1 DEF Publish
<1>2. ASSUME NEW d \in Deliveries, Deliver(d) PROVE Parts'
  BY <1>2 DEF Deliver
<1>0. CASE ConsumerCancelled \/ ChannelCloses
  BY <1>0 DEF ConsumerCancelled, ChannelCloses
<1>3. CASE Start
  <2>1. CASE StartFails \/ ConsumeShared \/ PublisherFails
    BY <2>1 DEF StartFails, ConsumeShared, PublisherFails
  <2>2. CASE StartLoops
    BY <2>2 DEF StartLoops
  <2>3. QED
    BY <1>3, <2>1, <2>2 DEF Start
<1>4. CASE Pump
  BY <1>4 DEF Pump, PumpTake, PumpReturns
<1>5. CASE CancelContext \/ StopCancels \/ StopCloses
  BY <1>5 DEF CancelContext, StopCancels, StopCloses
<1>6. CASE StopPanics \/ SenderPanics \/ Crash
  BY <1>6, EndKeepsParts DEF StopPanics, SenderPanics, Crash
<1>7. CASE Restart
  BY <1>7 DEF Restart
<1>8. CASE UNCHANGED vars
  BY <1>8 DEF vars
<1>9. QED
  BY <1>0, <1>1, <1>2, <1>3, <1>4, <1>5, <1>6, <1>7, <1>8,
     ReceiverKeepsParts, HandlerKeepsParts DEF Next, Stop

(* IInv is inductive.                                                       *)
LEMMA Inductive == Spec => []IInv
<1>1. Init => IInv
  <2>1. Init => TypeOK
    BY InitTyped
  <2>2. QED
    BY <2>1, DeliveriesAssumption
     DEF Init, IInv, AckedIsDecided, FailureCarried, HeldOnce,
         PanicOnlyAfterStop, Bookkeeping
<1>2. ASSUME IInv, [Next]_vars PROVE IInv'
  BY <1>2, TypeStep, StepKeepsParts DEF IInv, Parts
<1>3. QED
  BY <1>1, <1>2, PTL DEF Spec

(* No acknowledgement precedes the outcome of the processor.                *)
THEOREM AckedIsDecidedHolds == Spec => []AckedIsDecided
BY Inductive, PTL DEF IInv

(* A failure is always in exactly one place in memory.                      *)
THEOREM FailureCarriedHolds == Spec => []FailureCarried
BY Inductive, PTL DEF IInv

(* What is held is unacknowledged and held once.                            *)
THEOREM HeldOnceHolds == Spec => []HeldOnce
BY Inductive, PTL DEF IInv

(* A panic over w.errs has a Stop behind it.                                *)
THEOREM PanicOnlyAfterStopHolds == Spec => []PanicOnlyAfterStop
BY Inductive, PTL DEF IInv
-----------------------------------------------------------------------------
(* Refinement.  A step that leaves broker and the lost or failed fates of    *)
(* acknowledged deliveries alone is a stutter of the ledger.                *)
LEMMA LedgerStutters ==
  ASSUME \A d \in Deliveries : LedgerOf(d)' = LedgerOf(d)
  PROVE  UNCHANGED LedgerView
BY DEF LedgerView

(* A step that changes the standing of one delivery, and of no other, sets  *)
(* that entry of the ledger.                                                *)
LEMMA LedgerMoves ==
  ASSUME NEW d \in Deliveries, NEW s,
         LedgerOf(d)' = s,
         \A e \in Deliveries \ {d} : LedgerOf(e)' = LedgerOf(e)
  PROVE  LedgerView' = [LedgerView EXCEPT ![d] = s]
BY DEF LedgerView

(* The acknowledgement is where a delivery stops being pending: it becomes   *)
(* owed if the processor failed and errorFunc has not spoken, else settled. *)
LEMMA AckRefines ==
  ASSUME IInv, Ack, consumer # "closed" PROVE Ledger!LedgerNext
<1> PICK m \in Deliveries : m = receiver.msg
  BY DeliveriesAssumption DEF IInv, TypeOK, Ack
<1>1. m \in Deliveries /\ broker[m] = "unacked" /\ fate[m] \notin {"open", "lost"}
  BY DeliveriesAssumption DEF IInv, TypeOK, HeldOnce, Bookkeeping, Ack
<1>2. LedgerOf(m) = "pending"
  BY <1>1 DEF LedgerOf
<1>3. \A e \in Deliveries \ {m} : LedgerOf(e)' = LedgerOf(e)
  BY <1>1 DEF LedgerOf, Ack, IInv, TypeOK
<1>4. broker'[m] = "acked" /\ fate' = fate
  BY <1>1 DEF Ack, IInv, TypeOK
<1>5. CASE fate[m] = "failed"
  <2>1. LedgerOf(m)' = "owed"
    BY <1>4, <1>5 DEF LedgerOf, Ack
  <2>2. Ledger!Owe(m)
    BY <1>1, <1>2, <1>3, <2>1, LedgerMoves
       DEF Ledger!Owe, Ledger!In, Ledger!Become, LedgerView
  <2>3. QED
    BY <1>1, <2>2 DEF Ledger!LedgerNext
<1>6. CASE fate[m] # "failed"
  <2>1. LedgerOf(m)' = "settled"
    BY <1>1, <1>4, <1>6 DEF LedgerOf, Ack
  <2>2. Ledger!Settle(m)
    BY <1>1, <1>2, <1>3, <2>1, LedgerMoves
       DEF Ledger!Settle, Ledger!In, Ledger!Become, LedgerView
  <2>3. QED
    BY <1>1, <2>2 DEF Ledger!LedgerNext
<1>7. QED
  BY <1>5, <1>6

(* errorFunc's word on a failure settles it, at once in the ledger if the    *)
(* message is acknowledged already, else with the acknowledgement to come.  *)
LEMMA OutcomeRefines ==
  ASSUME IInv, GiveUp \/ RepublishFails
  PROVE  Ledger!LedgerNext \/ UNCHANGED LedgerView
<1> PICK m \in Deliveries : m = handler.msg
  BY DeliveriesAssumption DEF IInv, TypeOK, GiveUp, RepublishFails
<1>1. fate[m] = "failed" /\ broker[m] \in {"queued", "unacked", "acked"}
  BY DEF IInv, TypeOK, FailureCarried, Bookkeeping
<1>2. broker' = broker /\ fate'[m] \in {"givenup", "unpublished"}
  BY DEF GiveUp, RepublishFails, IInv, TypeOK
<1>3. \A e \in Deliveries \ {m} : LedgerOf(e)' = LedgerOf(e)
  BY <1>2 DEF LedgerOf, GiveUp, RepublishFails, IInv, TypeOK
<1>4. CASE broker[m] \in {"queued", "unacked"}
  <2>1. LedgerOf(m) = "pending" /\ LedgerOf(m)' = "pending"
    BY <1>2, <1>4 DEF LedgerOf
  <2>2. QED
    BY <1>3, <2>1, LedgerStutters
<1>5. CASE broker[m] = "acked"
  <2>1. LedgerOf(m) = "owed" /\ LedgerOf(m)' = "settled"
    BY <1>1, <1>2, <1>5 DEF LedgerOf
  <2>2. Ledger!Resolve(m)
    BY <1>3, <2>1, LedgerMoves
       DEF Ledger!Resolve, Ledger!In, Ledger!Become, LedgerView
  <2>3. QED
    BY <2>2 DEF Ledger!LedgerNext
<1>6. QED
  BY <1>1, <1>4, <1>5

(* A retry enters the queue in the step that discharges the failure, or,     *)
(* when it overtakes the acknowledgement, before it.                        *)
LEMMA RetryRefines ==
  ASSUME IInv, NEW e \in Deliveries, Republish(e) PROVE Ledger!LedgerNext
<1> PICK m \in Deliveries : m = handler.msg
  BY DeliveriesAssumption DEF IInv, TypeOK, Republish
<1>1. fate[m] = "failed" /\ broker[m] \in {"queued", "unacked", "acked"} /\ e # m
  BY DEF IInv, TypeOK, FailureCarried, Bookkeeping, Republish
<1>2. /\ broker' = [broker EXCEPT ![e] = "queued"]
      /\ fate' = [fate EXCEPT ![m] = "requeued"]
      /\ broker[e] = "absent"
  BY DEF Republish
<1>3. \A f \in Deliveries \ {m, e} : LedgerOf(f)' = LedgerOf(f)
  BY <1>2 DEF LedgerOf, IInv, TypeOK
<1>4. LedgerOf(e) = "absent" /\ LedgerOf(e)' = "pending"
  BY <1>2 DEF LedgerOf, IInv, TypeOK
<1>5. CASE broker[m] \in {"queued", "unacked"}
  <2>1. LedgerOf(m)' = LedgerOf(m)
    BY <1>1, <1>2, <1>5 DEF LedgerOf, IInv, TypeOK
  <2>2. Ledger!Enter(e)
    BY <1>3, <1>4, <2>1, LedgerMoves
       DEF Ledger!Enter, Ledger!In, Ledger!Become, LedgerView
  <2>3. QED
    BY <2>2 DEF Ledger!LedgerNext
<1>6. CASE broker[m] = "acked"
  <2>1. LedgerOf(m) = "owed" /\ LedgerOf(m)' = "settled"
    BY <1>1, <1>2, <1>6 DEF LedgerOf, IInv, TypeOK
  <2>2. LedgerView' = [LedgerView EXCEPT ![m] = "settled", ![e] = "pending"]
    BY <1>1, <1>3, <1>4, <2>1 DEF LedgerView
  <2>3. Ledger!Replace(m, e)
    BY <1>4, <2>1, <2>2 DEF Ledger!Replace, Ledger!In, LedgerView
  <2>4. QED
    BY <2>3 DEF Ledger!LedgerNext
<1>7. QED
  BY <1>1, <1>5, <1>6

(* When the process ends, exactly the debts are lost.                       *)
LEMMA EndRefines ==
  ASSUME IInv, NEW how, ProcessEnds(how) PROVE Ledger!LedgerNext
<1>1. ASSUME NEW d \in Deliveries
      PROVE  LedgerOf(d)' = IF LedgerOf(d) = "owed" THEN "lost" ELSE LedgerOf(d)
  BY DEF ProcessEnds, LedgerOf, IInv, TypeOK, AckedIsDecided, Bookkeeping
<1>2. Ledger!ProcessEnds
  BY <1>1 DEF Ledger!ProcessEnds, Ledger!In, LedgerView
<1>3. QED
  BY <1>2 DEF Ledger!LedgerNext

(* Every other step leaves broker alone, or only moves a delivery between    *)
(* the queue and the consumer, or is a publication.                         *)
LEMMA StepRefines ==
  ASSUME IInv, [Next]_vars PROVE Ledger!LedgerNext \/ UNCHANGED LedgerView
<1>1. ASSUME NEW d \in Deliveries, Publish(d) PROVE Ledger!LedgerNext
  <2>1. LedgerOf(d) = "absent" /\ LedgerOf(d)' = "pending"
    BY <1>1 DEF Publish, LedgerOf, IInv, TypeOK
  <2>2. \A e \in Deliveries \ {d} : LedgerOf(e)' = LedgerOf(e)
    BY <1>1 DEF Publish, LedgerOf, IInv, TypeOK
  <2>3. Ledger!Enter(d)
    BY <2>1, <2>2, LedgerMoves DEF Ledger!Enter, Ledger!In, Ledger!Become, LedgerView
  <2>4. QED
    BY <2>3 DEF Ledger!LedgerNext
<1>2. CASE \/ \E d \in Deliveries : Deliver(d)
           \/ ConsumerCancelled \/ ChannelCloses
  <2>1. \A e \in Deliveries : LedgerOf(e)' = LedgerOf(e)
    BY <1>2 DEF Deliver, ConsumerCancelled, ChannelCloses, LedgerOf, IInv, TypeOK
  <2>2. QED
    BY <2>1, LedgerStutters
<1>3. CASE UNCHANGED <<broker, fate>>
  BY <1>3, LedgerStutters DEF LedgerOf
<1>4. CASE Unmarshal \/ Succeed \/ Fail
  <2>1. PICK m \in Deliveries : m = receiver.msg
    BY <1>4, DeliveriesAssumption DEF IInv, TypeOK, Unmarshal, Succeed, Fail
  <2>2. broker[m] \in {"queued", "unacked"} /\ broker' = broker
        /\ \A e \in Deliveries \ {m} : fate'[e] = fate[e]
    BY <1>4, <2>1 DEF Unmarshal, Succeed, Fail, IInv, TypeOK, HeldOnce
  <2>3. \A e \in Deliveries : LedgerOf(e)' = LedgerOf(e)
    BY <2>2 DEF LedgerOf
  <2>4. QED
    BY <2>3, LedgerStutters
<1>5. CASE Start \/ Pump \/ CancelContext \/ StopCancels \/ StopCloses \/ Restart
           \/ Receive \/ ReceiverDone \/ AskRetry \/ HandlerDone
           \/ (\E d \in Deliveries : TakeError(d)) \/ UNCHANGED vars
  BY <1>3, <1>5
     DEF Start, StartFails, ConsumeShared, PublisherFails, StartLoops, Pump, PumpTake,
         PumpReturns, CancelContext, StopCancels, StopCloses, Restart, Receive, ReceiverDone,
         AskRetry, HandlerDone, TakeError, vars
<1>6. CASE StopPanics \/ SenderPanics \/ Crash
  BY <1>6, EndRefines DEF StopPanics, SenderPanics, Crash
<1>7. CASE Ack /\ consumer = "closed"
  BY <1>3, <1>7 DEF Ack
<1>8. QED
  BY <1>1, <1>2, <1>4, <1>5, <1>6, <1>7, AckRefines, OutcomeRefines, RetryRefines
     DEF Next, Stop, Receiver, Handler

(* The worker implements the ledger.                                        *)
THEOREM Refinement == Spec => ImplementsLedger
<1>1. Init => Ledger!LedgerInit
  BY DEF Init, Ledger!LedgerInit, LedgerView, LedgerOf
<1>2. IInv /\ [Next]_vars => [Ledger!LedgerNext]_LedgerView
  BY StepRefines
<1>3. QED
  BY <1>1, <1>2, Inductive, PTL DEF Spec, ImplementsLedger, Ledger!LedgerSpec
=============================================================================
