------------------------------- MODULE Worker -------------------------------
(***************************************************************************)
(* The queue worker of mq/worker.go: start, the goroutines processIncoming *)
(* and handleErrors, the goroutine spawned for each failed message, and     *)
(* Stop; the pump goroutine that consumeQueue (mq/exchange.go) starts for  *)
(* it; and, external to the repository, the broker's queue with its manual *)
(* acknowledgements.                                                       *)
(*                                                                         *)
(* A delivery is one publication of a message: a retry publishes the same  *)
(* payload again and is another delivery.                                  *)
(***************************************************************************)
EXTENDS Naturals

CONSTANTS
    Deliveries,    \* publications; as many as are modelled, retries included
    Undecodable,   \* those whose body json.Unmarshal rejects
    None,          \* no delivery in hand
    MaxRestarts    \* bound: how often a process that ended is started again

ASSUME DeliveriesAssumption ==
    /\ None \notin Deliveries
    /\ Undecodable \subseteq Deliveries
    /\ MaxRestarts \in Nat

VARIABLES
    broker,     \* where the broker has each delivery
    fate,       \* what the process has made of each delivery
    life,       \* the process: which part of start() it has completed, or its end
    done,       \* w.ctx.Done() is closed
    errs,       \* the channel w.errs
    stopping,   \* a call of Stop has cancelled and not yet closed w.errs
    stopped,    \* Stop was called in this life of the process
    consumer,   \* the subscription, and what ended it
    buffer,     \* deliveries in the amqp library's consumer channel
    pump,       \* consumeQueue's goroutine: [at |-> control point, msg |-> delivery]
    receiver,   \* processIncoming: [at |-> control point, msg |-> delivery]
    handler,    \* handleErrors: [at |-> control point, msg |-> delivery]
    senders,    \* goroutines blocked in w.errs <- workerError{...}
    restarts    \* how often the process was started again

process == <<life, done, errs, stopping, stopped>>
hands   == <<consumer, buffer, pump, receiver, handler, senders>>
vars    == <<broker, fate, process, hands, restarts>>

(* start subscribes ("consuming"), opens the delayed publisher and only then *)
(* starts the two loops.  It gives up before the subscription ("failed") or *)
(* after it, leaving a consumer nobody reads ("orphaned").                  *)
Up    == {"starting", "failed", "consuming", "orphaned", "running"}
Ended == {"crashed", "panicked"}

Subscribed == life \in {"consuming", "orphaned", "running"}

(* What a delivery may come to once processorFunc or errorFunc is done with *)
(* it.                                                                      *)
Final == {"succeeded", "undecodable", "givenup", "requeued", "unpublished"}

Off  == [at |-> "off",    msg |-> None]
Idle == [at |-> "select", msg |-> None]
Gone == [at |-> "returned", msg |-> None]

Holding(at, d) == [at |-> at, msg |-> d]

TypeOK ==
    /\ broker \in [Deliveries -> {"absent", "queued", "unacked", "acked"}]
    /\ fate \in [Deliveries -> Final \cup {"open", "failed", "lost"}]
    /\ life \in Up \cup Ended
    /\ done \in BOOLEAN
    /\ errs \in {"nil", "open", "closed"}
    /\ stopping \in BOOLEAN
    /\ stopped \in BOOLEAN
    /\ buffer \in SUBSET Deliveries
    /\ consumer \in {"open", "cancelled", "closed"}
    /\ pump \in {Off, Idle, Gone} \cup [at : {"sending"}, msg : Deliveries]
    /\ receiver \in {Off, Idle, Gone} \cup
                   [at : {"processing", "acking"}, msg : Deliveries]
    /\ handler \in {Off, Idle, Gone} \cup
                  [at : {"deciding", "publishing"}, msg : Deliveries]
    /\ senders \in SUBSET Deliveries
    /\ restarts \in 0..MaxRestarts

Init ==
    /\ broker = [d \in Deliveries |-> "absent"]
    /\ fate = [d \in Deliveries |-> "open"]
    /\ life = "starting"
    /\ done = FALSE
    /\ errs = "nil"
    /\ stopping = FALSE
    /\ stopped = FALSE
    /\ consumer = "open"
    /\ buffer = {}
    /\ pump = Off
    /\ receiver = Off
    /\ handler = Off
    /\ senders = {}
    /\ restarts = 0
-----------------------------------------------------------------------------
(* External: a publisher elsewhere, and the broker handing a queued message *)
(* to the subscription (no prefetch limit is ever set).                    *)

Publish(d) ==
    /\ broker[d] = "absent"
    /\ broker' = [broker EXCEPT ![d] = "queued"]
    /\ UNCHANGED <<fate, process, hands, restarts>>

Deliver(d) ==
    /\ Subscribed /\ consumer = "open"
    /\ broker[d] = "queued"
    /\ broker' = [broker EXCEPT ![d] = "unacked"]
    /\ buffer' = buffer \cup {d}
    /\ UNCHANGED <<fate, process, consumer, pump, receiver, handler, senders,
                   restarts>>

(* External: the subscription ends while the process stays up.  The broker   *)
(* cancels the consumer, which leaves the channel and what was delivered;   *)
(* or the channel is closed by an exception, which drops what the library   *)
(* has not yet passed on and requeues all that was not acknowledged.        *)
ConsumerCancelled ==
    /\ Subscribed /\ consumer = "open"
    /\ consumer' = "cancelled"
    /\ UNCHANGED <<broker, fate, process, buffer, pump, receiver,
                   handler, senders, restarts>>

ChannelCloses ==
    /\ Subscribed /\ consumer # "closed"
    /\ consumer' = "closed"
    /\ broker' = [d \in Deliveries |->
                     IF broker[d] = "unacked" THEN "queued" ELSE broker[d]]
    /\ buffer' \in SUBSET buffer
    /\ UNCHANGED <<fate, process, pump, receiver, handler, senders, restarts>>

(* Slip: autoAck TRUE in consumeQueue's Subscribe.                          *)
ProcessEndsAutoAcked(how) ==
    /\ life' = how
    /\ broker' = [d \in Deliveries |->
                     IF broker[d] = "unacked" THEN "acked" ELSE broker[d]]
    /\ fate' = [d \in Deliveries |->
                   IF fate[d] \in {"open", "failed"} /\ broker[d] \in {"unacked", "acked"}
                   THEN "lost" ELSE fate[d]]
    /\ done' = FALSE /\ stopping' = FALSE /\ errs' = "nil"
    /\ consumer' = "open" /\ buffer' = {} /\ pump' = Off /\ senders' = {}
    /\ receiver' = Off /\ handler' = Off
    /\ UNCHANGED <<stopped, restarts>>

-----------------------------------------------------------------------------
(* The process ends, by a panic in one of its goroutines, a log.Fatal (every *)
(* lost broker connection is one) or a kill.  What was in memory is gone;   *)
(* the broker requeues what it had no acknowledgement for.                  *)

ProcessEnds(how) ==
    /\ life' = how
    /\ broker' = [d \in Deliveries |->
                     IF broker[d] = "unacked" THEN "queued" ELSE broker[d]]
    /\ fate' = [d \in Deliveries |->
                   CASE broker[d] \in {"queued", "unacked"} -> "open"
                     [] broker[d] = "acked" /\ fate[d] = "failed" -> "lost"
                     [] OTHER -> fate[d]]
    /\ done' = FALSE /\ stopping' = FALSE /\ stopped' = stopped
    /\ errs' = "nil"
    /\ consumer' = "open" /\ buffer' = {} /\ pump' = Off /\ senders' = {}
    /\ receiver' = Off /\ handler' = Off
    /\ UNCHANGED restarts

Crash == life \in Up /\ ProcessEnds("crashed")

Restart ==
    /\ life \in Ended
    /\ restarts < MaxRestarts
    /\ life' = "starting"
    /\ stopped' = FALSE
    /\ restarts' = restarts + 1
    /\ UNCHANGED <<broker, fate, done, errs, stopping, hands>>
-----------------------------------------------------------------------------
(* InitWorker and start.  init, with the caller's init functions, and       *)
(* ConsumeShared may fail, and so may PublisherWithDelay after them.        *)

StartFails ==
    /\ life = "starting"
    /\ life' = "failed"
    /\ UNCHANGED <<broker, fate, done, errs, stopping, stopped, hands, restarts>>

ConsumeShared ==
    /\ life = "starting"
    /\ life' = "consuming"
    /\ pump' = Idle
    /\ UNCHANGED <<broker, fate, done, errs, stopping, stopped, consumer, buffer,
                   receiver, handler, senders, restarts>>

PublisherFails ==
    /\ life = "consuming"
    /\ life' = "orphaned"
    /\ UNCHANGED <<broker, fate, done, errs, stopping, stopped, hands, restarts>>

StartLoops ==
    /\ life = "consuming"
    /\ life' = "running"
    /\ errs' = "open"
    /\ receiver' = Idle
    /\ handler' = Idle
    /\ UNCHANGED <<broker, fate, done, stopping, stopped, consumer, buffer, pump,
                   senders, restarts>>

(* Slip: the ok of <-msgs is not looked at.                                 *)
ReceiveUnchecked ==
    /\ receiver.at = "select"
    /\ receiver' = Holding("processing", pump.msg)
    /\ pump' = Idle
    /\ UNCHANGED <<broker, fate, process, consumer, buffer, handler, senders,
                   restarts>>

(* Slip: m.Ack before the processor runs.                                   *)
ReceiveAndAck ==
    /\ receiver.at = "select"
    /\ pump.at = "sending"
    /\ receiver' = Holding("processing", pump.msg)
    /\ broker' = [broker EXCEPT ![pump.msg] = "acked"]
    /\ pump' = Idle
    /\ UNCHANGED <<fate, process, consumer, buffer, handler, senders, restarts>>

(* The pump takes a delivery and blocks sending it on the unbuffered e.in;   *)
(* it watches no context.                                                   *)
PumpTake(d) ==
    /\ pump = Idle
    /\ d \in buffer
    /\ pump' = Holding("sending", d)
    /\ buffer' = buffer \ {d}
    /\ UNCHANGED <<broker, fate, process, consumer, receiver, handler, senders,
                   restarts>>

(* The channel of an ended subscription is closed once it is drained: the    *)
(* pump logs that and returns, and nothing subscribes again.                *)
PumpReturns ==
    /\ pump = Idle
    /\ consumer # "open"
    /\ buffer = {}
    /\ pump' = Gone
    /\ UNCHANGED <<broker, fate, process, consumer, buffer, receiver, handler,
                   senders, restarts>>
-----------------------------------------------------------------------------
(* processIncoming.                                                         *)

Receive ==
    /\ receiver.at = "select"
    /\ pump.at = "sending"
    /\ receiver' = Holding("processing", pump.msg)
    /\ pump' = Idle
    /\ UNCHANGED <<broker, fate, process, consumer, buffer, handler, senders,
                   restarts>>

(* Slip: the error branch acknowledges, and the end of the case does again.  *)
UnmarshalAndAck ==
    /\ receiver.at = "processing"
    /\ receiver.msg \in Undecodable
    /\ fate' = [fate EXCEPT ![receiver.msg] = "undecodable"]
    /\ broker' = [broker EXCEPT ![receiver.msg] = "acked"]
    /\ receiver' = Holding("acking", receiver.msg)
    /\ UNCHANGED <<process, consumer, buffer, pump, handler, senders,
                   restarts>>

(* A body that does not unmarshal is logged, and acknowledged like any other. *)
Unmarshal ==
    /\ receiver.at = "processing"
    /\ receiver.msg \in Undecodable
    /\ fate' = [fate EXCEPT ![receiver.msg] = "undecodable"]
    /\ receiver' = Holding("acking", receiver.msg)
    /\ UNCHANGED <<broker, process, consumer, buffer, pump, handler, senders,
                   restarts>>

Succeed ==
    /\ receiver.at = "processing"
    /\ receiver.msg \notin Undecodable
    /\ fate' = [fate EXCEPT ![receiver.msg] = "succeeded"]
    /\ receiver' = Holding("acking", receiver.msg)
    /\ UNCHANGED <<broker, process, consumer, buffer, pump, handler, senders,
                   restarts>>

(* Slip: a send with a default case instead of a goroutine that waits.       *)
FailWithoutSender ==
    /\ receiver.at = "processing"
    /\ receiver.msg \notin Undecodable
    /\ fate' = [fate EXCEPT ![receiver.msg] = "failed"]
    /\ receiver' = Holding("acking", receiver.msg)
    /\ UNCHANGED <<broker, process, consumer, buffer, pump, handler, senders,
                   restarts>>

(* Slip: a failed message is neither acknowledged nor rejected.             *)
AckUnlessFailed ==
    /\ receiver.at = "acking"
    /\ broker' = IF fate[receiver.msg] = "failed" \/ consumer = "closed" THEN broker
                 ELSE [broker EXCEPT ![receiver.msg] = "acked"]
    /\ receiver' = Idle
    /\ UNCHANGED <<fate, process, consumer, buffer, pump, handler, senders,
                   restarts>>

(* processorFunc returned an error: a goroutine is spawned to hand it over. *)
Fail ==
    /\ receiver.at = "processing"
    /\ receiver.msg \notin Undecodable
    /\ fate' = [fate EXCEPT ![receiver.msg] = "failed"]
    /\ senders' = senders \cup {receiver.msg}
    /\ receiver' = Holding("acking", receiver.msg)
    /\ UNCHANGED <<broker, process, consumer, buffer, pump, handler, restarts>>

(* Slip: processIncoming closes w.errs on its way out.                      *)
ReceiverClosesErrs ==
    /\ receiver.at = "select"
    /\ done
    /\ receiver' = Gone
    /\ errs' = "closed"
    /\ UNCHANGED <<broker, fate, life, done, stopping, stopped, consumer,
                   buffer, pump, handler, senders, restarts>>

(* m.Ack(false), whose error is not looked at: on a closed channel it reaches *)
(* no one.                                                                  *)
Ack ==
    /\ receiver.at = "acking"
    /\ broker' = IF consumer = "closed" THEN broker
                 ELSE [broker EXCEPT ![receiver.msg] = "acked"]
    /\ receiver' = Idle
    /\ UNCHANGED <<fate, process, consumer, buffer, pump, handler, senders,
                   restarts>>

ReceiverDone ==
    /\ receiver.at = "select"
    /\ done
    /\ receiver' = Gone
    /\ UNCHANGED <<broker, fate, process, consumer, buffer, pump, handler,
                   senders, restarts>>
-----------------------------------------------------------------------------
(* handleErrors.  w.errs is unbuffered: a sender and the handler meet.      *)

TakeError(d) ==
    /\ handler.at = "select"
    /\ errs = "open"
    /\ d \in senders
    /\ senders' = senders \ {d}
    /\ handler' = Holding("deciding", d)
    /\ UNCHANGED <<broker, fate, process, consumer, buffer, pump, receiver,
                   restarts>>

GiveUp ==
    /\ handler.at = "deciding"
    /\ fate' = [fate EXCEPT ![handler.msg] = "givenup"]
    /\ handler' = Idle
    /\ UNCHANGED <<broker, process, consumer, buffer, pump, receiver, senders,
                   restarts>>

AskRetry ==
    /\ handler.at = "deciding"
    /\ handler' = Holding("publishing", handler.msg)
    /\ UNCHANGED <<broker, fate, process, consumer, buffer, pump, receiver,
                   senders, restarts>>

(* The retry is a new publication, under the key the message came with.     *)
Republish(e) ==
    /\ handler.at = "publishing"
    /\ broker[e] = "absent"
    /\ e \notin Undecodable
    /\ broker' = [broker EXCEPT ![e] = "queued"]
    /\ fate' = [fate EXCEPT ![handler.msg] = "requeued"]
    /\ handler' = Idle
    /\ UNCHANGED <<process, consumer, buffer, pump, receiver, senders,
                   restarts>>

(* Slip: handleErrors waits for Stop alone.                                 *)
HandlerDoneOnClose ==
    /\ handler.at = "select"
    /\ errs = "closed"
    /\ handler' = Gone
    /\ UNCHANGED <<broker, fate, process, consumer, buffer, pump, receiver,
                   senders, restarts>>

(* A retry that cannot be marshalled or published is logged, no more.       *)
RepublishFails ==
    /\ handler.at = "publishing"
    /\ fate' = [fate EXCEPT ![handler.msg] = "unpublished"]
    /\ handler' = Idle
    /\ UNCHANGED <<broker, process, consumer, buffer, pump, receiver, senders,
                   restarts>>

HandlerDone ==
    /\ handler.at = "select"
    /\ done \/ errs = "closed"
    /\ handler' = Gone
    /\ UNCHANGED <<broker, fate, process, consumer, buffer, pump, receiver,
                   senders, restarts>>
-----------------------------------------------------------------------------
(* The parent context is cancelled; Stop cancels the worker's own and then  *)
(* closes w.errs.  Closing a nil or a closed channel panics, and so does a   *)
(* goroutine blocked in a send on a channel when it is closed.              *)

CancelContext ==
    /\ life \in Up
    /\ ~done
    /\ done' = TRUE
    /\ UNCHANGED <<broker, fate, life, errs, stopping, stopped, hands, restarts>>

StopCancels ==
    /\ life \in {"failed", "orphaned", "running"}
    /\ ~stopping
    /\ stopping' = TRUE
    /\ stopped' = TRUE
    /\ done' = TRUE
    /\ UNCHANGED <<broker, fate, life, errs, hands, restarts>>

StopCloses ==
    /\ stopping
    /\ errs = "open"
    /\ errs' = "closed"
    /\ stopping' = FALSE
    /\ UNCHANGED <<broker, fate, life, done, stopped, hands, restarts>>

StopPanics == stopping /\ errs # "open" /\ ProcessEnds("panicked")

SenderPanics == errs = "closed" /\ senders # {} /\ ProcessEnds("panicked")
-----------------------------------------------------------------------------
Pump     == PumpReturns \/ \E d \in Deliveries : PumpTake(d)
Receiver == Receive \/ Unmarshal \/ Succeed \/ Fail \/ Ack \/ ReceiverDone
Handler  ==
    \/ \E d \in Deliveries : TakeError(d) \/ Republish(d)
    \/ GiveUp \/ AskRetry \/ RepublishFails \/ HandlerDone
Start    == StartFails \/ ConsumeShared \/ PublisherFails \/ StartLoops
Stop     == StopCancels \/ StopCloses \/ StopPanics

Next ==
    \/ \E d \in Deliveries : Publish(d) \/ Deliver(d)
    \/ ConsumerCancelled \/ ChannelCloses
    \/ Start \/ Pump \/ Receiver \/ Handler
    \/ CancelContext \/ Stop \/ SenderPanics
    \/ Crash \/ Restart

Spec == Init /\ [][Next]_vars

(* The scheduler runs every goroutine that can run, the broker delivers to   *)
(* an open subscription, and processorFunc and errorFunc return.  Nothing   *)
(* makes anyone publish, cancel, end the subscription, stop, crash or       *)
(* restart.                                                                 *)
Fairness ==
    /\ WF_vars(\E d \in Deliveries : Deliver(d))
    /\ WF_vars(Start)
    /\ WF_vars(Pump)
    /\ WF_vars(Receiver)
    /\ WF_vars(Handler)
    /\ WF_vars(StopCloses \/ StopPanics)
    /\ WF_vars(SenderPanics)

FairSpec == Spec /\ Fairness
-----------------------------------------------------------------------------
(* The broker forgets a delivery only after the worker has run it to an     *)
(* outcome or found it undecodable: acknowledging comes last on every path  *)
(* of processIncoming.                                                      *)
AckedIsDecided ==
    \A d \in Deliveries : broker[d] = "acked" => fate[d] # "open"

(* A failure whose message is, or is about to be, acknowledged exists only  *)
(* in memory: exactly one of a blocked sender and handleErrors has it.      *)
FailureCarried ==
    \A d \in Deliveries :
        /\ fate[d] = "failed" <=> (d \in senders \/ handler.msg = d)
        /\ ~ (d \in senders /\ handler.msg = d)

(* Acknowledging twice, or a delivery of an earlier connection, makes the    *)
(* broker close the channel.  What the worker holds is unacknowledged, or   *)
(* was requeued when the channel closed, and is in one place.               *)
HeldOnce ==
    /\ \A d \in Deliveries :
          (d \in buffer \/ pump.msg = d \/ receiver.msg = d) =>
              broker[d] = IF consumer = "closed" THEN "queued" ELSE "unacked"
    /\ pump.msg \notin buffer /\ receiver.msg \notin buffer
    /\ pump.msg = receiver.msg => pump.msg = None

(* Nothing closes w.errs but Stop, so no goroutine panics on it unless Stop  *)
(* was called.                                                              *)
PanicOnlyAfterStop == life = "panicked" \/ errs = "closed" => stopped

(* The inductive invariant behind the four: where a delivery is tells whether *)
(* the processor has been run on it, and a panic has a Stop behind it.       *)
Bookkeeping ==
    /\ \A d \in Deliveries :
          /\ broker[d] = "absent" => fate[d] = "open"
          /\ broker[d] = "queued" /\ consumer # "closed" => fate[d] = "open"
          /\ broker[d] = "unacked" => consumer # "closed"
          /\ d \in buffer \/ pump = Holding("sending", d) => fate[d] = "open"
          /\ receiver = Holding("processing", d) => fate[d] = "open"
          /\ receiver = Holding("acking", d) => fate[d] # "open"
          /\ fate[d] = "lost" => broker[d] = "acked"
    /\ stopping => stopped
    /\ ~Subscribed => consumer = "open" /\ pump = Off
    /\ life # "running" => receiver = Off /\ handler = Off
    /\ life \in Ended => errs = "nil" /\ ~stopping

(* What became of a delivery, seen from outside the process.                *)
LedgerOf(d) ==
    CASE broker[d] = "absent" -> "absent"
      [] broker[d] \in {"queued", "unacked"} -> "pending"
      [] broker[d] = "acked" /\ fate[d] = "failed" -> "owed"
      [] broker[d] = "acked" /\ fate[d] = "lost" -> "lost"
      [] OTHER -> "settled"

LedgerView == [d \in Deliveries |-> LedgerOf(d)]

Ledger == INSTANCE MessageLedger WITH ledger <- LedgerView

(* Messages leave the queue as the ledger says: settled by the processor or  *)
(* by errorFunc, replaced by one retry each, or lost with the process.      *)
ImplementsLedger == Ledger!LedgerSpec

Settled(d) == broker[d] = "acked" /\ fate[d] \in Final \cup {"lost"}

(* A worker that comes to stay up with its context live and its subscription *)
(* open settles whatever is in its queue, whatever process ends came before. *)
(* A subscription that ends is not opened again: then only the end of the   *)
(* process and another start bring the queue back.                          *)
QueueIsServed ==
    <>[](life = "running" /\ ~done /\ consumer = "open") =>
        \A d \in Deliveries : broker[d] = "queued" ~> Settled(d)

(* Both loops leave their select once the context is done.                  *)
LoopsReturn ==
    (life = "running" /\ done) ~>
        (life \in Ended \/ (receiver = Gone /\ handler = Gone))

(* commons.go: "The worker will terminate with the parent context".  Every   *)
(* goroutine the worker started has returned, or the process has ended.     *)
TerminatesWithContext ==
    (life = "running" /\ done) ~>
        (life \in Ended \/ (receiver = Gone /\ handler = Gone /\ senders = {}))
=============================================================================
