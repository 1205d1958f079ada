------------------------------ MODULE Exchange ------------------------------
(***************************************************************************)
(* Several workers on the exchanges of one process (mq/rmq.go,              *)
(* mq/commons.go, mq/exchange.go).  An RMQ keeps one rmqExchange per name,   *)
(* and with it one Go channel e.in: the pump of every consumer opened on it *)
(* sends there, and every worker on it receives from there.                 *)
(*                                                                         *)
(* External: the broker copies a publication into each queue bound to its   *)
(* key.  How a failure reaches errorFunc, and the end of a channel while its *)
(* process stays up, are the subject of Worker; whose queue is consumed when *)
(* openings overlap, that of Connection.                                    *)
(***************************************************************************)
EXTENDS Naturals

CONSTANTS
    Workers,
    Connections,   \* RMQ values
    Names,         \* exchange names
    Keys,          \* routing keys; a worker binds one
    Queues,        \* queue names
    Setups,        \* what the workers may be configured as
    Publications,  \* publications, retries included
    None,
    MaxCrashes     \* bound: how often the process ends, by configuration

Configs == [conn : Connections, name : Names, key : Keys, queue : Queues]

Copies == Publications \X Queues

(* GenericWorkerSuite joins exchange, theme and key with dashes, which they  *)
(* may hold themselves, and InitWorker takes any name: workers of two keys, *)
(* and of two exchanges, may have one queue.                                *)
ASSUME SetupsAssumption ==
    /\ Setups \subseteq [Workers -> Configs]
    /\ None \notin Workers \cup Keys \cup Names \cup Copies

ASSUME BoundAssumption == MaxCrashes \in [Setups -> Nat]

VARIABLES
    setup,       \* the configuration of each worker
    life,        \* each worker: idle, up, orphaned, stopping or returned
    subscribed,  \* workers whose consumer the broker has
    bound,       \* broker: bindings <<exchange name, key, queue>>
    exists,      \* broker: queues that are declared
    sent,        \* each publication: its exchange name and key, or None
    place,       \* each copy: where it is, and in which worker's hands
    owed,        \* failures <<worker, copy>> its senders or handleErrors hold
    ran,         \* workers whose processorFunc was given the copy (history)
    retryOf,     \* the copy a publication is a retry of, or None
    crashes

workers == <<setup, life>>
broker  == <<subscribed, bound, exists, sent>>
vars    == <<workers, broker, place, owed, ran, retryOf, crashes>>

At(at, by) == [at |-> at, by |-> by]
Absent == At("absent", None)
Queued == At("queued", None)
Lost   == At("lost", None)
Done   == At("settled", None)

TypeOK ==
    /\ setup \in Setups
    /\ life \in [Workers -> {"idle", "up", "orphaned", "stopping", "returned"}]
    /\ subscribed \in SUBSET Workers
    /\ bound \in SUBSET (Names \X Keys \X Queues)
    /\ exists \in SUBSET Queues
    /\ sent \in [Publications -> (Names \X Keys) \cup {<<None, None>>}]
    /\ place \in [Copies -> {Absent, Queued, Lost, Done} \cup
                            [at : {"buffered", "pumped", "running", "acking"},
                             by : Workers]]
    /\ owed \in SUBSET (Workers \X Copies)
    /\ ran \in [Copies -> SUBSET Workers]
    /\ retryOf \in [Publications -> Copies \cup {None}]
    /\ crashes \in 0 .. MaxCrashes[setup]
    /\ \A w \in subscribed : life[w] # "idle" /\ setup[w].queue \in exists
    /\ \A b \in bound : b[3] \in exists
    /\ \A c \in Copies : place[c] = Queued => c[2] \in exists

Unsent(p) == sent[p] = <<None, None>>

Init ==
    /\ setup \in Setups
    /\ life = [w \in Workers |-> "idle"]
    /\ subscribed = {}
    /\ bound = {}
    /\ exists = {}
    /\ sent = [p \in Publications |-> <<None, None>>]
    /\ place = [c \in Copies |-> Absent]
    /\ owed = {}
    /\ ran = [c \in Copies |-> {}]
    /\ retryOf = [p \in Publications |-> None]
    /\ crashes = 0
-----------------------------------------------------------------------------
(* Slip: the exchanges of a connection are not told apart.                   *)
DeclareExchangeOnce(conn, name) == [conn |-> conn]

(* The rmqExchange, and so the channel e.in, that a name stands for: the one *)
(* already in q.exchanges, or a new one.                                    *)
DeclareExchange(conn, name) == [conn |-> conn, name |-> name]

(* ManageWithConnection takes the exchange from an RMQ that others share,    *)
(* ManageWithExclusiveConnection from an RMQ loaded for it.                 *)
Incoming(w) == DeclareExchange(setup[w].conn, setup[w].name)

(* start: the queue is declared, bound and subscribed to, and then the       *)
(* publisher opens and the loops begin, or the worker is given up.          *)
StartWorker(w) ==
    LET s == setup[w]
    IN  /\ life[w] = "idle"
        /\ \E l \in {"up", "orphaned"} : life' = [life EXCEPT ![w] = l]
        /\ exists' = exists \cup {s.queue}
        /\ bound' = bound \cup {<<s.name, s.key, s.queue>>}
        /\ subscribed' = subscribed \cup {w}
        /\ UNCHANGED <<setup, sent, place, owed, ran, retryOf, crashes>>

(* The context is done, or Stop is called.  processIncoming may still choose *)
(* a message; the consumer, and its pump, stay.                             *)
Cancel(w) ==
    /\ life[w] = "up"
    /\ life' = [life EXCEPT ![w] = "stopping"]
    /\ UNCHANGED <<setup, broker, place, owed, ran, retryOf, crashes>>

(* processIncoming has no message in hand.                                  *)
Free(w) == \A c \in Copies : place[c] \notin {At("running", w), At("acking", w)}

Returns(w) ==
    /\ life[w] = "stopping"
    /\ Free(w)
    /\ life' = [life EXCEPT ![w] = "returned"]
    /\ UNCHANGED <<setup, broker, place, owed, ran, retryOf, crashes>>
-----------------------------------------------------------------------------
(* p goes to the queues bound to its key, and to none if there is none: it is *)
(* returned as mandatory, and nobody listens for returns.  What is published *)
(* elsewhere under names and keys no worker has reaches none of them.       *)
Routed(f, p, name, key) ==
    [c \in Copies |-> IF c[1] = p /\ <<name, key, c[2]>> \in bound THEN Queued ELSE f[c]]

Publish(p, name, key) ==
    /\ Unsent(p)
    /\ \E w \in Workers : setup[w].name = name /\ setup[w].key = key
    /\ sent' = [sent EXCEPT ![p] = <<name, key>>]
    /\ place' = Routed(place, p, name, key)
    /\ UNCHANGED <<workers, subscribed, bound, exists, owed, ran, retryOf, crashes>>

Moves(c, to) ==
    /\ place' = [place EXCEPT ![c] = to]
    /\ UNCHANGED <<workers, broker, retryOf, crashes>>

(* The broker hands out the copies of a queue to its consumers in turn.      *)
Deliver(c, w) ==
    /\ place[c] = Queued
    /\ w \in subscribed /\ setup[w].queue = c[2]
    /\ Moves(c, At("buffered", w)) /\ UNCHANGED <<owed, ran>>

(* Slip: the pump ends with the context of its worker.                       *)
PumpWhileUp(w, c) ==
    /\ life[w] = "up"
    /\ place[c] = At("buffered", w)
    /\ \A d \in Copies : place[d] # At("pumped", w)
    /\ Moves(c, At("pumped", w)) /\ UNCHANGED <<owed, ran>>

Pump(w, c) ==
    /\ place[c] = At("buffered", w)
    /\ \A d \in Copies : place[d] # At("pumped", w)
    /\ Moves(c, At("pumped", w)) /\ UNCHANGED <<owed, ran>>

(* v, of whatever queue, takes what the pump of w sends on their channel.    *)
Receive(v, w, c) ==
    /\ life[v] \in {"up", "stopping"}
    /\ Incoming(v) = Incoming(w)
    /\ place[c] = At("pumped", w)
    /\ Free(v)
    /\ Moves(c, At("running", v))
    /\ ran' = [ran EXCEPT ![c] = @ \cup {v}]
    /\ UNCHANGED owed

(* The processor succeeds, or the body does not decode to the type of v's    *)
(* messages; then the copy is acknowledged.                                 *)
Settle(v, c) ==
    /\ place[c] = At("running", v)
    /\ Moves(c, Done) /\ UNCHANGED <<owed, ran>>

(* The processor fails: a goroutine is spawned that hands the failure to     *)
(* handleErrors, and the copy is acknowledged before or after it has.       *)
Fail(v, c) ==
    /\ place[c] = At("running", v)
    /\ Moves(c, At("acking", v))
    /\ owed' = owed \cup {<<v, c>>}
    /\ UNCHANGED ran

Ack(v, c) ==
    /\ place[c] = At("acking", v)
    /\ Moves(c, Done) /\ UNCHANGED <<owed, ran>>

(* errorFunc gives the failure up, or its retry cannot be published.         *)
GiveUp(v, c) ==
    /\ <<v, c>> \in owed
    /\ owed' = owed \ {<<v, c>>}
    /\ UNCHANGED <<workers, broker, place, ran, retryOf, crashes>>

(* Slip: the retry goes out under the worker's own binding key.              *)
RetryOwnKey(v, c, p) ==
    LET s == <<setup[v].name, setup[v].key>>
    IN  /\ <<v, c>> \in owed
        /\ Unsent(p)
        /\ owed' = owed \ {<<v, c>>}
        /\ sent' = [sent EXCEPT ![p] = s]
        /\ place' = Routed(place, p, s[1], s[2])
        /\ retryOf' = [retryOf EXCEPT ![p] = c]
        /\ UNCHANGED <<workers, subscribed, bound, exists, ran, crashes>>

(* A failure is retried: the payload is published on v's exchange under the  *)
(* key it came with, to every queue bound to that key.  handleErrors may    *)
(* still do so when the worker is stopping, and after processIncoming has   *)
(* returned.                                                                *)
Retry(v, c, p) ==
    LET s == <<setup[v].name, sent[c[1]][2]>>
    IN  /\ <<v, c>> \in owed
        /\ Unsent(p)
        /\ owed' = owed \ {<<v, c>>}
        /\ sent' = [sent EXCEPT ![p] = s]
        /\ place' = Routed(place, p, s[1], s[2])
        /\ retryOf' = [retryOf EXCEPT ![p] = c]
        /\ UNCHANGED <<workers, subscribed, bound, exists, ran, crashes>>
-----------------------------------------------------------------------------
(* RemoveConsumer unbinds the keys it is given one by one and then deletes   *)
(* the queue, whoever consumes it; it leaves off where a call fails.        *)
Unbind(b) ==
    /\ bound' = bound \ {b}
    /\ UNCHANGED <<workers, subscribed, exists, sent, place, owed, ran, retryOf, crashes>>

(* The queue goes, its consumers are cancelled, and what they were given     *)
(* before is still theirs.                                                  *)
QueueGoes(q) ==
    /\ q \in exists
    /\ exists' = exists \ {q}
    /\ bound' = {b \in bound : b[3] # q}
    /\ subscribed' = {w \in subscribed : setup[w].queue # q}
    /\ place' = [c \in Copies |-> IF c[2] = q /\ place[c] = Queued THEN Lost ELSE place[c]]
    /\ UNCHANGED <<workers, sent, owed, ran, retryOf, crashes>>

DeleteQueue(q) == QueueGoes(q)

(* x-expires: the broker deletes a queue nobody consumed for a minute.       *)
Expire(q) ==
    /\ \A w \in subscribed : setup[w].queue # q
    /\ QueueGoes(q)

(* The process ends and may be started again.  Copies it had not             *)
(* acknowledged go back to their queues.                                    *)
Crash ==
    /\ crashes < MaxCrashes[setup]
    /\ crashes' = crashes + 1
    /\ life' = [w \in Workers |-> "idle"]
    /\ subscribed' = {}
    /\ place' = [c \in Copies |->
                    IF place[c] \in {Absent, Lost, Done} THEN place[c]
                    ELSE IF c[2] \in exists THEN Queued ELSE Lost]
    /\ owed' = {}
    /\ UNCHANGED <<setup, bound, exists, sent, ran, retryOf>>

Next ==
    \/ \E w \in Workers : StartWorker(w) \/ Cancel(w) \/ Returns(w)
    \/ \E p \in Publications, n \in Names, k \in Keys : Publish(p, n, k)
    \/ \E w \in Workers, c \in Copies :
         \/ Deliver(c, w) \/ Pump(w, c)
         \/ Settle(w, c) \/ Fail(w, c) \/ Ack(w, c) \/ GiveUp(w, c)
         \/ \E v \in Workers : Receive(v, w, c)
         \/ \E p \in Publications : Retry(w, c, p)
    \/ \E b \in bound : Unbind(b)
    \/ \E q \in Queues : DeleteQueue(q) \/ Expire(q)
    \/ Crash

Spec == Init /\ [][Next]_vars

(* The broker delivers, and goroutines that can run do.  As publications are *)
(* finite, what is fair to all of them together is fair to each.            *)
Work ==
    \E w \in Workers :
        \/ Returns(w)
        \/ \E c \in Copies :
              Deliver(c, w) \/ Pump(w, c) \/ Settle(w, c) \/ Fail(w, c) \/ Ack(w, c)
        \/ \E u \in Workers, c \in Copies : Receive(w, u, c)

FairSpec == Spec /\ WF_vars(Work)
-----------------------------------------------------------------------------
(* Workers one of which may be handed what the other subscribed to: they use *)
(* one connection and one exchange.                                         *)
Mates(v, w) == setup[v].conn = setup[w].conn /\ setup[v].name = setup[w].name

(* A worker may run the messages of another worker's queue, bound to another *)
(* key and made for another type, but only if both use one exchange of one  *)
(* connection: exclusive connections and other exchanges keep apart.        *)
OnlyMatesRun ==
    \A c \in Copies : \A v \in ran[c] : \E w \in Workers : setup[w].queue = c[2] /\ Mates(v, w)

(* The inductive invariant behind it and RetryComesBack: whoever holds a     *)
(* copy, or its failure, subscribed to its queue or is a mate of who did.    *)
Custody ==
    /\ \A c \in Copies :
         /\ place[c] # Absent => ~Unsent(c[1])
         /\ \A w \in Workers :
              /\ place[c] \in {At("buffered", w), At("pumped", w)} => setup[w].queue = c[2]
              /\ place[c] \in {At("running", w), At("acking", w)} =>
                    \E u \in Workers : setup[u].queue = c[2] /\ Mates(w, u)
    /\ \A o \in owed :
         /\ ~Unsent(o[2][1])
         /\ \E u \in Workers : setup[u].queue = o[2][2] /\ Mates(o[1], u)

(* Every exchange on which a worker consumes queue q has it bound to key.    *)
BoundForAll(q, key) ==
    \A w \in Workers : setup[w].queue = q => <<setup[w].name, key, q>> \in bound

(* A retry comes back to the queue the failed copy was taken from, whichever *)
(* worker ran it and whatever became of that worker since, while the queue  *)
(* is bound to the key the copy came with.  When workers of two exchanges    *)
(* have one queue, a retry goes to the exchange of the one that ran it, and *)
(* comes back only if that one binds the queue too.                         *)
RetryComesBack ==
    [][\A p \in Publications : \A c \in Copies :
          /\ retryOf[p] = None /\ retryOf'[p] = c
          /\ BoundForAll(c[2], sent[c[1]][2])
          => place'[<<p, c[2]>>] = Queued]_vars

(* Stopping a worker does not end its consumer: its queue is served as long   *)
(* as whoever started a consumer of it has some worker up on its channel.  A *)
(* stopped or orphaned worker alone on its exchange would swallow its share. *)
Attended(q) ==
    /\ \E w \in subscribed : setup[w].queue = q
    /\ \A w \in Workers :
          life[w] # "idle" /\ setup[w].queue = q =>
              \E v \in Workers : Mates(v, w) /\ life[v] = "up"

ServedByMates ==
    \A q \in Queues :
        <>[]Attended(q) =>
            []<>(\A p \in Publications : place[<<p, q>>] \in {Absent, Done, Lost})
=============================================================================
