----------------------------- MODULE Connection -----------------------------
(***************************************************************************)
(* One rmqConn of mq/connection.go from RabbitMQ() to the end of the        *)
(* process: the goroutine running reconnect and connect, the two it spawns  *)
(* (restore and the closer of ready), the goroutines that open consumers    *)
(* through it (consumeQueue of mq/exchange.go), and RMQ.Close.             *)
(*                                                                         *)
(* External: the amqp library and the broker.  A channel error closes the   *)
(* channel for good; Subscribe with an empty queue name means the queue     *)
(* last declared on the channel; a consumer may be exclusive.              *)
(***************************************************************************)
CONSTANTS
    Users,      \* goroutines that each open a consumer on a queue of their own
    Restorer,   \* the goroutine connect spawns to run restore
    None

ASSUME CallersAssumption == Restorer \notin Users /\ None \notin Users

VARIABLES
    exit,       \* why the process ended, "no" while it runs
    main,       \* control point of the goroutine running reconnect
    conn,       \* the network connection
    channel,    \* c.channel: nil, open, or broken (closed under our feet)
    ready,      \* c.ready has been closed
    errOpen,    \* c.err has not been closed
    done,       \* c.ctx.Done() is closed
    closer,     \* control point of the close() that RMQ.Close spawned
    caller,     \* control point of each opening of a consumer
    exchanges,  \* c.exchanges: the queue recorded for the exchange, or None
    overlapped, \* users whose opening overlapped another one (history)
    declared,   \* broker: the queue last declared on the channel
    subs,       \* broker: consumers on the channel
    exists      \* broker: the exchange has been declared

shutdown == <<done, closer, errOpen>>
client   == <<caller, exchanges, overlapped>>
remote   == <<declared, subs, exists>>
vars     == <<exit, main, conn, channel, ready, shutdown, client, remote>>

Callers == Users \cup {Restorer}

(* Control points of an opening at which an RPC on the channel is due.      *)
Opening == {"declare", "bind", "subscribe", "publisher"}

Sub(queue, exclusive, by) == [queue |-> queue, exclusive |-> exclusive, by |-> by]

Running == exit = "no"

TypeOK ==
    /\ exit \in {"no", "dial", "lost", "closed", "restore", "bind", "nil", "close"}
    /\ main \in {"connect", "open", "serving", "closing", "await"}
    /\ conn \in {"none", "open", "lost", "closed"}
    /\ channel \in {"nil", "open", "broken"}
    /\ ready \in BOOLEAN /\ errOpen \in BOOLEAN /\ done \in BOOLEAN
    /\ closer \in {"idle", "begin", "closing", "done"}
    /\ caller \in [Callers -> Opening \cup {"idle", "open", "error"}]
    /\ exchanges \in Users \cup {None}
    /\ overlapped \in SUBSET Users
    /\ declared \in Users \cup {None}
    /\ subs \in SUBSET [queue : Users, exclusive : BOOLEAN, by : Callers]
    /\ exists \in BOOLEAN
    /\ subs # {} => channel # "broken" /\ conn = "open"
    /\ ready => main \in {"serving", "closing"}

Init ==
    /\ exit = "no"
    /\ main = "connect"
    /\ conn = "none"
    /\ channel = "nil"
    /\ ready = FALSE
    /\ errOpen = TRUE
    /\ done = FALSE
    /\ closer = "idle"
    /\ caller = [c \in Callers |-> "idle"]
    /\ exchanges = None
    /\ overlapped = {}
    /\ declared = None
    /\ subs = {}
    /\ exists \in BOOLEAN
-----------------------------------------------------------------------------
Exit(why) ==
    /\ exit' = why
    /\ UNCHANGED <<main, conn, channel, ready, shutdown, client, remote>>

(* RabbitMQ() returns once ready is closed; only then has anyone an RMQ.    *)
Loaded == ready \/ main \in {"closing", "await"}

(* External: the connection breaks.  The library, holding its lock, blocks   *)
(* sending the error on the unbuffered c.err, which NotifyClose registered, *)
(* and panics if close() closed it.                                         *)
Lose ==
    /\ Running
    /\ conn = "open"
    /\ IF errOpen
         THEN /\ conn' = "lost"
              /\ channel' = IF channel = "open" THEN "broken" ELSE channel
              /\ subs' = {}
              /\ UNCHANGED <<exit, main, ready, shutdown, client, declared, exists>>
         ELSE Exit("close")

Cancel ==
    /\ Running
    /\ ~done
    /\ done' = TRUE
    /\ UNCHANGED <<exit, main, conn, channel, ready, closer, errOpen, client, remote>>
-----------------------------------------------------------------------------
(* reconnect and connect.  Every failure of connect is a log.Fatal.         *)

(* The connection is made and c.err registered with it.                      *)
Dial ==
    /\ Running
    /\ main = "connect"
    /\ conn' = "open"
    /\ main' = "open"
    /\ UNCHANGED <<exit, channel, ready, shutdown, client, remote>>

(* No connection, or one lost before c.err is registered: the call that      *)
(* opens the channel then fails.                                            *)
DialFails == Running /\ main = "connect" /\ Exit("dial")

OpenChannel ==
    /\ Running
    /\ main = "open"
    /\ conn = "open"
    /\ channel' = "open"
    /\ main' = "serving"
    /\ UNCHANGED <<exit, conn, ready, shutdown, client, remote>>

(* The broker refuses the channel.                                           *)
OpenFails == Running /\ main = "open" /\ conn = "open" /\ Exit("dial")

(* The connection is lost with c.err registered and before connect comes to  *)
(* receive from it: the library holds its lock for the send, so that        *)
(* connection.Channel() never returns, nor does RabbitMQ(), and nothing in  *)
(* connect sees the context.                                                *)
Hung == main = "open" /\ conn = "lost"

(* Slip: ready is closed before the channel is there.                       *)
SignalReadyEarly ==
    /\ Running
    /\ main \in {"open", "serving"}
    /\ ~ready
    /\ ready' = TRUE
    /\ UNCHANGED <<exit, main, conn, channel, shutdown, client, remote>>

(* go func() { close(c.ready) }().                                          *)
SignalReady ==
    /\ Running
    /\ main = "serving"
    /\ ~ready
    /\ ready' = TRUE
    /\ UNCHANGED <<exit, main, conn, channel, shutdown, client, remote>>

(* Slip: the error is not fatal, so that reconnect's loop comes to run.      *)
TakeLossAndReconnect ==
    /\ Running
    /\ main = "serving"
    /\ conn = "lost"
    /\ errOpen
    /\ main' = "connect"
    /\ ready' = FALSE
    /\ UNCHANGED <<exit, conn, channel, shutdown, client, remote>>

(* The error of a lost connection is fatal: connect never dials again.      *)
TakeLoss == Running /\ main = "serving" /\ conn = "lost" /\ errOpen /\ Exit("lost")

(* c.err was closed by RMQ.Close: logging the nil error panics, connect       *)
(* recovers and returns, leaving a new c.ready behind.                      *)
TakeClosed ==
    /\ Running
    /\ main = "serving"
    /\ ~errOpen
    /\ main' = "await"
    /\ ready' = FALSE
    /\ UNCHANGED <<exit, conn, channel, shutdown, client, remote>>

(* Slip: a nil error is told from an error, and the loop waits on.           *)
AfterConnectLoops == Running /\ main = "await" /\ UNCHANGED vars

(* reconnect, after connect: the receive from the closed c.err yields a nil   *)
(* *amqp.Error, which is not a nil error, and that is fatal.                *)
AfterConnect == Running /\ main = "await" /\ ~errOpen /\ Exit("closed")
-----------------------------------------------------------------------------
(* close(), run by connect when the context is done and by RMQ.Close.       *)

(* close(c.err) with the library blocked in a send on it ends the process    *)
(* with a panic in the library's goroutine.                                 *)
CloseErrPanics == Running /\ errOpen /\ conn = "lost"

(* Closing a channel that the broker closed is an error, and fatal.  Closing *)
(* the connection makes the library close c.err once more: that panic is    *)
(* recovered, unless the library's reader meets the end of the stream first. *)
CloseConnection ==
    /\ channel # "broken"
    /\ channel' = "nil"
    /\ conn' = "closed"
    /\ subs' = {}
    /\ UNCHANGED <<exit, done, errOpen, client, declared, exists>>

MainCloses ==
    /\ Running
    /\ main = "serving"
    /\ done
    /\ \/ /\ CloseErrPanics
          /\ Exit("close")
       \/ /\ ~CloseErrPanics
          \* a second close(c.err) panics and is recovered: nothing else is closed
          /\ IF errOpen
               THEN main' = "closing" /\ channel' = channel /\ ready' = ready
               ELSE main' = "await" /\ channel' = "nil" /\ ready' = FALSE
          /\ errOpen' = FALSE
          /\ UNCHANGED <<exit, conn, done, closer, client, remote>>

MainClosesConnection ==
    /\ Running
    /\ main = "closing"
    /\ \/ Exit("close")
       \/ CloseConnection /\ main' = "await" /\ ready' = FALSE /\ UNCHANGED closer

CallClose ==
    /\ Running
    /\ Loaded
    /\ closer = "idle"
    /\ closer' = "begin"
    /\ UNCHANGED <<exit, main, conn, channel, ready, done, errOpen, client, remote>>

CloserCloses ==
    /\ Running
    /\ closer = "begin"
    /\ \/ /\ CloseErrPanics
          /\ Exit("close")
       \/ /\ ~CloseErrPanics
          /\ IF errOpen
               THEN closer' = "closing" /\ channel' = channel
               ELSE closer' = "done" /\ channel' = "nil"
          /\ errOpen' = FALSE
          /\ UNCHANGED <<exit, main, conn, ready, done, client, remote>>

CloserClosesConnection ==
    /\ Running
    /\ closer = "closing"
    /\ \/ Exit("close")
       \/ CloseConnection /\ closer' = "done" /\ UNCHANGED <<main, ready>>
-----------------------------------------------------------------------------
(* Opening a consumer: consumeQueue, called by a user for a shared consumer  *)
(* of its own queue, or by restore for an exclusive one of the queue first   *)
(* recorded for the exchange.                                               *)

QueueOf(c) == IF c = Restorer THEN exchanges ELSE c

Go(c, at) == caller' = [caller EXCEPT ![c] = at]

Busy(c) == caller[c] \in {"declare", "bind", "subscribe"}

(* Both openings are marked when one begins inside the other.               *)
Begins(c) ==
    /\ Go(c, "declare")
    /\ overlapped' = overlapped \cup
         (IF \E b \in Callers : Busy(b)
            THEN {u \in Users : u = c \/ Busy(u)} ELSE {})
    /\ UNCHANGED <<exit, main, conn, channel, ready, shutdown, exchanges, remote>>

UserBegins(u) ==
    /\ Running
    /\ Loaded
    /\ caller[u] = "idle"
    /\ Begins(u)

(* restore returns at once when no exchange is recorded, as when it is       *)
(* scheduled before anyone uses the connection.                             *)
RestoreBegins ==
    /\ Running
    /\ main \notin {"connect", "open"}
    /\ caller[Restorer] = "idle"
    /\ IF exchanges = None
         THEN /\ Go(Restorer, "open")
              /\ UNCHANGED <<exit, main, conn, channel, ready, shutdown, exchanges,
                             overlapped, remote>>
         ELSE Begins(Restorer)

(* An error is returned to a user, and fatal to restore.                    *)
Fails(c) ==
    IF c = Restorer
      THEN exit' = "restore" /\ UNCHANGED caller
      ELSE exit' = exit /\ Go(c, "error")

(* Channel() waits for ready; it yields nil when close() has cleared         *)
(* c.channel meanwhile, and using that panics.                              *)
Uses(c, at) == Running /\ caller[c] = at /\ ready

(* Slip: Channel() waits until the channel is usable.                       *)
UseBrokenWaits(c) ==
    /\ Uses(c, "declare") \/ Uses(c, "subscribe")
    /\ channel = "broken"
    /\ UNCHANGED vars

UseNil(c) ==
    /\ \E at \in {"declare", "bind", "subscribe"} : Uses(c, at)
    /\ channel = "nil"
    /\ Exit("nil")

UseBroken(c) ==
    /\ Uses(c, "declare") \/ Uses(c, "subscribe")
    /\ channel = "broken"
    /\ Fails(c)
    /\ UNCHANGED <<main, conn, channel, ready, shutdown, exchanges, overlapped, remote>>

Declare(c) ==
    /\ Uses(c, "declare")
    /\ channel = "open"
    /\ declared' = QueueOf(c)
    /\ Go(c, "bind")
    /\ UNCHANGED <<exit, main, conn, channel, ready, shutdown, exchanges, overlapped,
                   subs, exists>>

(* Slip: the exchange is declared where the queue is bound.                 *)
BindDeclaring(c) ==
    /\ Uses(c, "bind")
    /\ channel = "open"
    /\ exists' = TRUE
    /\ exchanges' = IF exchanges = None THEN QueueOf(c) ELSE exchanges
    /\ Go(c, "subscribe")
    /\ UNCHANGED <<exit, main, conn, channel, ready, shutdown, overlapped, declared,
                   subs>>

(* The broker closes the channel over a declaration it refuses.             *)
Refused(c) ==
    /\ Uses(c, "declare")
    /\ channel = "open"
    /\ channel' = "broken"
    /\ subs' = {}
    /\ Fails(c)
    /\ UNCHANGED <<main, conn, ready, shutdown, exchanges, overlapped, declared, exists>>

Bind(c) ==
    /\ Uses(c, "bind")
    /\ channel = "open"
    /\ exists
    /\ exchanges' = IF exchanges = None THEN QueueOf(c) ELSE exchanges
    /\ Go(c, "subscribe")
    /\ UNCHANGED <<exit, main, conn, channel, ready, shutdown, overlapped, remote>>

BindPanics(c) ==
    /\ Uses(c, "bind")
    /\ channel = "broken" \/ (channel = "open" /\ ~exists)
    /\ Exit("bind")

(* The broker refuses a consumer beside an exclusive one.                    *)
Conflict(c) ==
    \E s \in subs : s.queue = declared /\ (s.exclusive \/ c = Restorer)

(* Slip: the queue recorded for the exchange is consumed, not one's own.     *)
SubscribeRecorded(c) ==
    /\ Uses(c, "subscribe")
    /\ channel = "open"
    /\ ~Conflict(c)
    /\ subs' = subs \cup {Sub(exchanges, c = Restorer, c)}
    /\ Go(c, IF c = Restorer THEN "open" ELSE "publisher")
    /\ UNCHANGED <<exit, main, conn, channel, ready, shutdown, exchanges, overlapped,
                   declared, exists>>

(* The queue name given is empty: the code never assigns its variable queue. *)
Subscribe(c) ==
    /\ Uses(c, "subscribe")
    /\ channel = "open"
    /\ ~Conflict(c)
    /\ subs' = subs \cup {Sub(declared, c = Restorer, c)}
    /\ Go(c, IF c = Restorer THEN "open" ELSE "publisher")
    /\ UNCHANGED <<exit, main, conn, channel, ready, shutdown, exchanges, overlapped,
                   declared, exists>>

SubscribeRefused(c) ==
    /\ Uses(c, "subscribe")
    /\ channel = "open"
    /\ Conflict(c)
    /\ channel' = "broken"
    /\ subs' = {}
    /\ Fails(c)
    /\ UNCHANGED <<main, conn, ready, shutdown, exchanges, overlapped, declared, exists>>

(* worker.start goes on to PublisherWithDelay, which declares the exchange   *)
(* over the connection for publishing.                                      *)
OpenPublisher(u) ==
    /\ Running
    /\ caller[u] = "publisher"
    /\ \/ exists' = TRUE /\ Go(u, "open")
       \/ exists' = exists /\ Go(u, "error")
    /\ UNCHANGED <<exit, main, conn, channel, ready, shutdown, exchanges, overlapped,
                   declared, subs>>
-----------------------------------------------------------------------------
Main ==
    \/ Dial \/ DialFails \/ OpenChannel \/ OpenFails
    \/ TakeLoss \/ TakeClosed \/ AfterConnect \/ MainCloses \/ MainClosesConnection

Closer == CloserCloses \/ CloserClosesConnection

Opens(c) ==
    \/ UseNil(c) \/ UseBroken(c) \/ Declare(c) \/ Refused(c) \/ Bind(c)
    \/ BindPanics(c) \/ Subscribe(c) \/ SubscribeRefused(c)

Next ==
    \/ Main \/ SignalReady \/ CallClose \/ Closer \/ Lose \/ Cancel
    \/ RestoreBegins
    \/ \E c \in Callers : Opens(c)
    \/ \E u \in Users : UserBegins(u) \/ OpenPublisher(u)

Spec == Init /\ [][Next]_vars

(* Goroutines that can run do, and RPCs are answered.                        *)
Fairness ==
    /\ WF_vars(Main) /\ WF_vars(SignalReady) /\ WF_vars(Closer)
    /\ WF_vars(RestoreBegins)
    /\ \A c \in Callers : WF_vars(Opens(c))
    /\ \A u \in Users : WF_vars(OpenPublisher(u))

FairSpec == Spec /\ Fairness
-----------------------------------------------------------------------------
(* A user whose opening overlaps no other, restore's included, consumes its *)
(* own queue, although the code asks for "the last one declared".           *)
SerialOpensGetOwnQueue ==
    \A s \in subs : s.by \in Users \ overlapped => s.queue = s.by

(* Channel() yields nil, and its caller panics, only once close() has begun. *)
NilOnlyInShutdown == exit = "nil" => ~errOpen

(* The inductive invariant behind them: openings that run at once are        *)
(* marked; one that runs alone finds its own queue last declared; what is    *)
(* bound has an exchange; and channel is nil only before connect has opened  *)
(* it or after close() has begun.                                           *)
Openings ==
    /\ \A u \in Users, c \in Callers :
          Busy(u) /\ Busy(c) /\ c # u => u \in overlapped
    /\ \A u \in Users \ overlapped :
          caller[u] \in {"bind", "subscribe"} => declared = u
    /\ \A u \in Users : caller[u] \in {"subscribe", "publisher", "open"} => exists
    /\ \A c \in Callers : caller[c] \in {"bind", "subscribe"} => declared # None
    /\ exchanges # None => exists
    /\ caller[Restorer] \in Opening => exchanges # None
    /\ caller[Restorer] # "publisher"

Lifecycle ==
    /\ main \in {"connect", "open"} => ~ready /\ errOpen /\ closer = "idle"
    /\ main \in {"closing", "await"} \/ closer \in {"closing", "done"} => ~errOpen
    /\ main = "connect" => conn = "none"
    /\ main \in {"connect", "open"} => channel = "nil"
    /\ channel = "open" => conn = "open"
    /\ channel = "nil" /\ errOpen => main \in {"connect", "open"}

(* Whatever reconnect's name says: a connection that was lost or closed, and *)
(* a channel the broker closed, are not opened again.                       *)
NoReconnect ==
    [][/\ conn \in {"lost", "closed"} => conn' # "open"
       /\ channel = "broken" => channel' # "open"]_vars

(* The exchange has to exist before the first worker starts: the declaration *)
(* in PublisherWithDelay, coming after the binding, is never what creates it. *)
NeverCreatesExchange == [][exists' = exists]_vars

(* A lost connection, a done context and a call of RMQ.Close all end the     *)
(* whole process, but for one window in which a loss stops it for good.     *)
EndsWithConnection ==
    (conn = "lost" \/ done \/ closer = "begin") ~> (~Running \/ Hung)

(* Whoever opens a consumer gets it or an error, unless the process ends.    *)
OpensFinish ==
    \A u \in Users :
        caller[u] \in Opening ~> (caller[u] \in {"open", "error"} \/ ~Running)
=============================================================================
