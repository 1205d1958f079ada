# gostart: TLA+ models, model checking and proofs

gostart is a Go library for services: queue workers over RabbitMQ, sessions with
JWT, a query builder, a small tree collection, HTTP handlers, and the glue that
starts an application. This directory holds TLA+ models of the parts that keep
state or run concurrently, the TLC configurations that check them, and theorems
about them that the TLA+ proof system checks. Every definition is translated
from the code; `PROJECT.json` maps each one to its lines, and lists the runs, the
theorems, what the runs found, and the hazards the properties are meant for.

To check a model, `tlc -config MCWorker.cfg MCWorker`; to check the proofs of a
module, `tlapm WorkerProofs.tla`.

## 1. Inventory

| Component | State it keeps | Operations | Module |
|---|---|---|---|
| Queue worker (`mq/worker.go`) | context, `errs` channel, two loops, one goroutine for each failure nobody took yet | start, process, acknowledge, hand over a failure, retry, Stop | `Worker`, `MessageLedger` |
| Exchanges, managers (`mq/exchange.go`, `rmq.go`, `commons.go`) | one `rmqExchange` and one Go channel `in` per name and RMQ; consumers | open a consumer, pump, publish, RemoveConsumer | `Exchange` |
| Broker connection (`mq/connection.go`) | connection, channel, `ready`, `err`, recorded exchanges | connect, reconnect, restore, Channel, bind, subscribe, close | `Connection` |
| Plain queues, publisher (`mq/queue.go`, `publisher.go`) | as exchanges, without bindings | consume, publish | not modelled |
| Tree (`collections/tree.go`) | linked nodes, an index at the root, levels, ghosts | TreeOf, Add, Remove, RemoveChild, Clear | `Tree` |
| Sessions (`services/auth`) | two maps of users, signed tokens, the clock | Signup, Login, Verify, Refresh, Clear | `Session` |
| Query (`query`) | a criteria tree per builder; filters, sort keys and boundaries read from a URL | Where, Build, load, Select (rows, then count) | `UrlSearch`, `Query`, `Paging`, `Listing` |
| API (`api`) | parameters in the request's context, the user the guard found | WithUser, the parameter handlers, list paging, the answer's shape | `Api` |
| HTTP client (`http/client.go`) | headers, parameters, session and body of a client | Request with a timeout, getResponse | `Client` |
| Generic handler (`http/handler.go`) | `err`, `res`, `param` of a closure that all calls share | load, forward, parse, return | `Gateway` |
| Application (`app`) | `a.consul`, `serviceId`, signal channel, context; the agent's list | Register, Run, ServiceUrl, shutdown | `App` |
| Tasks (`utils/tasks.go`, `timer.go`) | goroutines, a timer | WithRetry, WithTimeout, SafeChannelWrite | `Tasks`, `Service` |
| Lists, maps, sets; values; logging; storage | none beyond a call | helpers and configuration | not modelled |

How they interact. A **manager** gives workers an exchange of an **RMQ**. Starting
a **worker** opens a consumer through the RMQ's consumer **connection**, which
starts a *pump* goroutine; the pump sends deliveries on the exchange's channel,
and the worker's `processIncoming` receives from it, runs user code and
acknowledges. A failure travels over `errs` to `handleErrors`, which may publish
a retry through the exchange. The **session service** is called by HTTP handlers,
one goroutine for each request, over a **user store** without locks. **Query** turns
the parameters an API handler read into SQL text and arguments, and runs them against
a table that others write to. A **generic handler** is a routine of one service that
forwards its parameter, through a **client**, to the **API** of another: a chain of
handlers there, with a guard that asks the session service. **App** owns the context
whose end is meant to stop the workers and the **tasks** of its program, and lists the
service with Consul's agent, which all instances share.

What is hard, and what must hold:

- *mq* has all of the concurrency: unbuffered channels between four kinds of
  goroutine, one channel shared by all workers of an exchange, acknowledgements
  that must come last, a context and a Stop that race with senders, and a
  connection whose failures end the process, or its consumers alone. What must hold: no message is
  forgotten before it was processed, no failure is dropped while the process
  lives, no goroutine panics unprovoked, queues go on being served, and a worker
  gets its own messages.
- *services/auth* interleaves calls on two unprotected maps and reads the clock
  three times for each token. What must hold: the maps agree, tokens live as long
  as configured, disabled users run out of them.
- *collections/tree* is sequential, and its hazard is a long sequence of legal
  calls: links in both directions, an index and levels have to stay together.
- *query* is sequential too, but ranges over Go maps: every order must give a
  clause that means what was asked, with its arguments in its order. A list is read
  by several requests, each of two SELECTs, and nothing holds the table still: pages
  must cover the list, and totals agree with pages, as far as nobody writes.
- *http* and *api* share what was meant to belong to one call: a closure's variables, a
  kept client's headers and parameters. A service may answer late or never, with a
  Response, a bare error or a bare status. What must hold: whoever has the closure or
  a client to itself gets its own answer, errors stay errors, nobody unverified is
  served, offsets survive 32 bits, and every call returns.
- *app* has several processes and one list in the agent, calls that fail half way, and
  signals that come at any time. What must hold: who runs is listed, who stopped is
  not, and a signal ends the process.
- *utils/tasks.go* starts goroutines that nobody joins. What must hold: they end.

## 2. Modules

| Module | What it is | Composes / extends |
|---|---|---|
| `MessageLedger` | abstract: what a worker promises of each message | |
| `Worker` | one worker with its goroutines, its queue, and the life of its process | instantiates `MessageLedger` for the refinement |
| `Exchange` | several workers, exchanges, connections and the broker's routing | workers of `Worker` seen from outside |
| `Connection` | one connection from `RabbitMQ()` to the end of the process | |
| `Tree`, `Session` | the components of those names | |
| `UrlSearch` | the filters of a query string | |
| `Query` | criteria and their text | extends `UrlSearch`, whose filters it takes |
| `Paging` | what a list promises from a query string to its pages, whatever the where clause is made of | extends `UrlSearch` |
| `Listing` | the pages of a list, with the clause the criteria make | composes `Query` and `Paging`, and implements `Paging` |
| `Api` | the chain of handlers of a service | |
| `Client` | client objects, Request, getResponse | extends `Api`: its requests are those of its calls |
| `Gateway` | the closure of GenericHandler, and the whole system from a caller to the answer | extends `Client` |
| `App`, `Tasks` | processes and the agent's list; helpers of a process | |
| `Service` | the processes, one of them with tasks that end with its context | extends `App` and `Tasks` |
| `MCWorker`, `MCExchange`, `MCConnection`, `MCTree`, `MCSession`, `MCQuery`, `MCListing`, `MCGateway`, `MCService` | the small instances for TLC | each extends its model |
| `WorkerProofs`, `ExchangeProofs`, `ConnectionProofs`, `TreeProofs`, `SessionProofs`, `ListingProofs`, `GatewayProofs`, `ServiceProofs` | theorems and proofs | each extends its model |

A definition marked "Slip" in a model is a variant of the definition that follows
it, with a mistake one could make in that code. No specification uses it: it is
what the property named beside it in `PROJECT.json` (under "mutants") must refute,
so that no property holds whatever the code does.

### Worker

A *delivery* is one publication; a retry publishes the payload again and is a new
delivery. `broker[d]` is where the broker has it, `fate[d]` what the process made of
it. `life` follows `start`: subscribe ("consuming"), open the delayed publisher,
start the loops ("running"), or give up before ("failed") or after ("orphaned")
there is a consumer. Each goroutine is a control point with the delivery in its
hands: the pump blocked on `e.in`, `processIncoming` (`receiver`), `handleErrors`
(`handler`), and the set of `senders` blocked on `errs`. `Receive`, `Unmarshal`,
`Succeed`, `Fail`, `Ack` and `ReceiverDone` are the branches of `processIncoming`;
`TakeError`, `GiveUp`, `AskRetry`, `Republish`, `RepublishFails` and `HandlerDone` those
of `handleErrors`. Stop is two steps, since `cancel` lets the loops run before
`errs` is closed; it may be called on a worker whose start failed, and again.
`consumer` is the subscription: the broker may cancel it, or close its channel with
what was not acknowledged requeued, while the process stays up (`ConsumerCancelled`,
`ChannelCloses`). The pump then drains what is left and returns (`PumpReturns`), nothing
subscribes again, and acknowledgements on a closed channel reach no one.
`ProcessEnds` is any end of the process: memory is gone and the broker requeues
what was not acknowledged.

`MessageLedger` has none of this: a message is pending until it was run, a failed
run leaves a debt that errorFunc settles, with or without a new message, and a debt
is lost only with the process. `LedgerView` maps the worker's state to it.

### Exchange

Every worker has a configuration: a connection, an exchange name, a key and a queue.
`Incoming(w)` is the Go channel it receives from, which `DeclareExchange` shares
between the workers of one name on one connection. A publication becomes one *copy*
for each queue bound to its key; `place` says where a copy is and in whose hands,
`ran` which workers' processors were given it, `owed` the failures that a worker's senders
or `handleErrors` hold: a copy that failed is acknowledged (`Ack`) before or after its
failure is given up or retried (`GiveUp`, `Retry`), and a worker may retry while it is
stopping and after `processIncoming` has returned. Queue names are not told apart by
key or exchange: dashes join their parts, and `InitWorker` takes any name, so two workers of
two keys, or of two exchanges, may have one queue. A worker that was cancelled is
"stopping" and then "returned", but its consumer and its pump stay, as in the code.
RemoveConsumer appears as its single effects (`Unbind`, `DeleteQueue`), since it may
fail between them. `Expire` is the queue's `x-expires`. That a channel ends while its process
stays up is modelled in `Worker` and `Connection`, and left out here.

### Connection

`main` is the goroutine that runs `reconnect` and `connect`; `closer` the `close()` that
`RMQ.Close` starts; `caller` the goroutines that open consumers, `restore` among them
(`Restorer`). `channel` is nil, open or broken, for a channel error closes it for
good. `declared` is the broker's "queue last declared on this channel", which is what
an empty queue name stands for when `Subscribe` is called: `consumeQueue` never
assigns the variable it passes. `exit` says why the process ended; every `log.Fatal`
and every panic that nobody recovers ends it. One loss does not: when it comes between
`NotifyClose` and `Channel()`, the library's shutdown waits to send on the unbuffered `c.err`
with its lock held, `Channel()` waits for the lock, and `connect` never returns (`Hung`).

### Tree, Session, UrlSearch, Query

`Tree` keeps the heap of nodes as a record of functions and translates `TreeOf`,
`addToParent`, `unGhost`, `setLevel`, `Add` and `Remove` as operators on it, with a nil
map, a nil parent and an endless recursion as outcomes ("fresh", "again", "remove"). What
`setLevel` and `Remove` visit is stated without recursion: `Visits` by depth, `Below` as the
least set that is closed under children.

`Session` splits each call where another goroutine may run: at each access to a map
and at each reading of the clock. Time is counted in ticks, `PerSecond` of them to
the second, because a token keeps whole seconds only; timeouts may be any number of ticks. `Accepts` is `validateToken`: the
leeway of the library, and then `Claims.Validate`, which allows none. `Crash` is the
runtime's stop on concurrent map access.

`Query` keeps of a text what the database makes of it: the comparisons it `reads` from left
to right, the `args` that go with it, and of which rows it `holds`. Conditions are nested to
any depth: `Conditions` are those at hand, And and Or are given conditions that were made
before, and `Height` numbers them so that a node's number is above those of the nodes in it.
`Appended` is what a condition appends to a node and under which constraint, `Children` the
two lists of the node it makes, `Joined` what Build writes of several texts, and `Build`
goes down the nodes, each in the order of its map (`RangeOrders`). Nodes of one height
share an order; `Height` may give each condition a number of its own, and then each has an
order of its own. A comparison with nil is written as `is null` whatever its operator
(`Written`), and `Misread` are the comparisons which that changes.

The filters come from `UrlSearch`: `LoadUrl` loads them in either order,
`UrlFieldParams` is what `FromUrlParams` makes criteria of. A query string is a set of keys,
each with its field, its operator and how the field is spelt: as it is named, in camel
case, or in the camel case that `strcase.ToCamel` makes of a field behind a tilde
(`Spellings`). A filter compares a field with the value *of a key*, so that a value read under
the wrong key shows. `Tried` lists the keys a like is read from, in their order: each of
`~f`, `~f~`, `f~` and the camel case of it, in which the tilde is gone. `~name` in camel case is
`name`, so that every exact match on a field that is also compared makes a like, too; the first
key there is wins (`Likes`), and others that were given are its `Rivals`.

### Paging, Listing

`Paging` goes on where `UrlSearch` has its filters. `plan` is what a client asks for: filters,
sort keys, a limit, and whether it names pages or offsets. `LoadSearch` is `Load` or
`SearchParams` (with `Int64` arithmetic in `LoadBoundaries`), `UseSearch` is
`FromUrlParams`, and `SelectRows`, `SelectCount` are the two queries of `Select`; either may
fail (`SelectFails`, after some of the rows, and `CountFails`). `chosen` are the rows the
where clause is true of: its text is made once for both queries. In `Paging` they are any
rows, but for a plan whose filters all arrive (`Arriving`), where they are those it means
(`Selects`). The likes that exact matches bring along do not change that: a text that equals
a value ends with it (`ListingAssumption`), and on a column that is no text the database
refuses the query (`LikesAreOfText`). In `Listing` the database evaluates the text `Build` made (`Matching`), and
`KeepsPromises` says that this is a behaviour of `Paging`. It sorts by `orderBy`, rows it
cannot tell apart in any order (`InOrder`). `Ask` starts the request of the next page with a new `urlSearch`
and a new builder. `Insert` and `Delete` are others who write between any two steps;
`writes` remembers what they did.

### Api, Client, Gateway

Each request passes its chain of handlers in `Api`, one action for each: `Receive` is the
middleware that gives it an id, `WithUser` the guard, and `Refuse`, `Succeed` and `Fail` the
outcomes of the route's handler, which loads and validates a parameter, runs the routine
(any data or error) and answers. `answer` keeps the *shape* of what is written
(a Response, a bare `ErrorModel`, an empty status after a recovered panic), since that is
what `getResponse` tells apart. `Client` has an `object` for each call; calls in `Direct`
share one, so that what `setOverrides` and `Params` add stays for the next. `GivesUp` is
the client's timeout; the service goes on all the same. `Gateway` splits a call of the
closure where another call may run: each assignment and each test of `err`, `res` and
`param` is a step, and `res` is assigned in two parts. `overlapped` marks calls that ran
beside another.

### App, Tasks, Service

`phase` follows the main function: ready when Init has run, registered, notified, waiting
for the signal, in shutdown, done, or killed. `catalog` is the agent's list, one entry for an identifier;
an automatic one (`AutoId`) is a text, and may be the name of another service:
registering writes it whoever had it, deregistering removes it whoever has it. A signal
before `Notify` kills; later it goes into `osc`, which holds one. `Tasks` has a control
point for each WithRetry, WithTimeout, timer goroutine and detached write; its steps
take place in the process `Busy` and stop when it ends.

## 3. Runs

| Run | Shows | Bounds |
|---|---|---|
| `worker` | invariants, the refinement of `MessageLedger`, and liveness over every interleaving of the worker's goroutines, Stop, cancellation, the end of its subscription, crash and restart | 3 deliveries, 1 of them undecodable, 1 restart |
| `worker_context` | refutes that a worker ends with its context | the same |
| `exchange` | whose messages a worker may run, where retries return, who serves the queue of a stopped worker | 2 workers in 6 constellations, 2 publications, 1 crash of two instances |
| `connection` | whose queue is consumed, when the channel is nil, that nothing is reopened, that every loss ends the process or leaves `connect` hung | 2 users and restore |
| `tree` | what links, index and levels agree on | every forest over 4 identifiers, 3 calls |
| `tree_add` | refutes a statement of the tests | the same, 2 calls |
| `session` | maps agree, tokens keep their timeout, disabled users run out | 2 callers, 1 name, 3 identifiers, 3 calls, 5 ticks of half a second; access tokens of a second and a half |
| `session_issue` | refutes that an issued token is accepted | the same |
| `query` | the clause means the conditions, arguments stand at their placeholders; filters looked for arrive and no column is compared with another's value; pages cover their list, totals match their page; `Listing` implements `Paging` | conditions two deep, 2 calls of Where, query strings of 2 keys, and of up to 3 that are taken for others; 9 lists of up to 4 pages over 3 rows, 1 write to the table, 3-bit integers |
| `query_join` | refutes a statement of a test | conditions two deep, 2 calls of Where |
| `gateway` | whose answer a call returns, who is let in, what a list is read from, what a client sends, that calls return | 2 calls through one closure, 2 of one kept client, or one of each; 2 tokens, 4-bit integers |
| `service` | who is listed, that a signal ends the process, that tasks end | 2 instances in 5 environments, or 1 with a retry, a timeout and 2 writes; 2 signals |

What each property says, in words, stands above it in its module. Some are weaker
than one would wish, because the code promises no more; their comments say so. For
example `RemovedLeavesParent` and `LevelsFollowChildren` (`Tree`) exclude the tops of a
forest and ghosts, `PagesCoverList` (`Paging`) speaks of lists sorted by one unique
column whose offsets do not wrap, `OwnAnswerUnlessOverlapped` (`Gateway`) of calls that had the
closure to themselves, `QueueIsServed` (`Worker`) of a subscription that stays, `RetryComesBack`
(`Exchange`) of queues that all exchanges consuming them have bound to the key, and
`CatalogFollowsRun` (`Service`) says least of instances that share an identifier or whose calls
of the agent fail. What the code does outside these conditions is in the models; the hazards
in `PROJECT.json` name the cases that no property speaks of.

The type invariants of `Worker`, `Tree` and `Gateway` are checked by runs; those of the
other models are among the theorems of section 5 or parts of the invariants there.

Why the bounds are enough. *worker*: three deliveries are a failing message, its
retry and an undecodable one, or three messages with the pump, the receiver and the
handler busy at once; one restart gives requeued deliveries to a new process.
*exchange*: two workers can be mates on one exchange, on two exchanges of one
connection, instances that share a queue over connections of their own, or workers whose
keys or whose exchanges make one queue name; a property about a third worker compares two
of them at a time. The process ends where the two are instances of one worker: elsewhere what
it leaves behind is requeued, and waits as what was just published. *connection*: two
users are one pair of overlapping openings, and restore makes a third. *tree*: four
identifiers give a chain of four and a ghost with two children; three calls are
enough to add, move and remove one node. *session*: one name is what signups compete
for; five ticks take an access token (a second and a half, cut to seconds) from its issue to
beyond its expiry, and a refresh token of two seconds to its last tick. *query*: both joins inside both
joins, with an empty node, a null check and a comparison of two arguments among
them; three query-string keys are a like, its rival and an exact match, and one field is named by two
words, so that its camel case is no exact match; three rows make a first, a middle and a last page, one write is a row that
moves under a list, and `int64` of three bits wraps at the third page. *gateway*: an
overlap is of two calls at a time, and a kept client needs two requests for the second
to find what the first left; `int32` of four bits has pages that fit, that wrap to a
negative offset and that wrap to a positive one. *service*: sharing an identifier is
between two instances, by their names, by configuration, or because the automatic identifier
of one is the name of the other. The theorems of section 5 are free of these bounds.

`CHECK_DEADLOCK FALSE` stands in every configuration, because each
of these systems may really stop: the process has ended, the calls or publications are used up.

## 4. Fairness

- `Worker!FairSpec`: weak fairness of the pump, of each loop, of start, of the closing
  half of Stop and of the broker's delivery. The Go scheduler runs every goroutine
  that can run, and a select with a ready case proceeds; the user's functions are
  assumed to return. Nothing obliges anyone to publish, cancel, end the subscription, stop,
  crash or restart.
- `Exchange!FairSpec`: weak fairness of the work on copies taken together. There are
  finitely many copies and each only moves forward, so that no part of it can be put
  off for ever. `Retry` and `GiveUp` are not fair: what `handleErrors` does with a failure is
  no part of serving the queue.
- `Connection!FairSpec`: weak fairness of the connecting goroutine, of each opening,
  of the closers: an AMQP call is answered or fails, but for the one that waits for the
  library's lock in `Hung`.
- `Gateway!FairSpec`: weak fairness of each call's own steps. The timeout of Do is one of
  them, so that a call proceeds whatever the service does; the service, sessions and
  callers owe nothing.
- `Service!FairSpec`: weak fairness of each instance's main function once it runs (calls
  of the agent answer or fail), of each task, timer and detached write in a live process
  (the scheduler runs them, time passes, fn returns), and of the reader while it reads.
  Nobody need send a signal, and fn need never succeed.
- `Session`, `Tree`, `Query`, `Paging`, `Listing` have no liveness properties and no fairness.

`QueueIsServed` and `ServedByMates` are stated under the condition that a worker comes
to stay up, with its subscription. Without it the code promises nothing: a lost connection
ends the process, and a subscription that the broker ends is not opened again, so that the
queue waits although the process is up (`mq/exchange.go:93`).

`TasksSettle` assumes of the reader of a detached write that it reads until the context ends,
after which the process ends, too. Nothing in the repository calls `SafeChannelWrite`, so that
this is an assumption about its users: with a reader that leaves earlier, the write stays.

## 5. Theorems

All are proved for every value of the constants, from the named assumptions of the
models: identifiers are distinct from the "none" values, and a forest has finitely many of
them; a table has finitely many rows and columns, a column's
values are ordered as integers are, and a key of a query string has one value; a condition is
given to another after it was made, so that conditions have heights up to some bound
(`QueryAssumption`), what a row may satisfy are comparisons the operators can make, and a text that equals a
value ends with it (`ListingAssumption`: true of a value without a backslash). Each is an
invariant or action property of the model's specification, by an inductive invariant that
is stated in the model or beside its proof.

- `WorkerProofs`: type correctness, `AckedIsDecided`, `FailureCarried`, `HeldOnce`,
  `PanicOnlyAfterStop`, and `Refinement`, that the worker implements `MessageLedger`.
  `FailureCarried` and `HeldOnce` are not inductive alone: that a failed delivery is not
  requeued with its failure still in hand follows from `Bookkeeping`, which ties the
  place of a delivery to its fate and to the state of the subscription, and a panic to an
  earlier Stop. The refinement
  maps every action to one action of the ledger or to a stutter.
- `ExchangeProofs`: type correctness, `OnlyMatesRun`, `RetryComesBack`. `Custody` adds that
  whoever holds a copy, or the failure of one, subscribed to its queue or shares the channel
  with who did, and that what is held was published: so the exchange a retry goes to is that
  of a worker that consumes the queue, whatever else consumes it.
- `ConnectionProofs`: type correctness, `SerialOpensGetOwnQueue`, `NilOnlyInShutdown`,
  `NoReconnect`, `NeverCreatesExchange`. `Openings` says that overlapping openings are marked
  and that one running alone finds its own queue last declared; `Lifecycle` ties the
  control points of the connecting goroutine to the connection and the channel.
- `GatewayProofs`: type correctness, `OwnAnswerUnlessOverlapped`, `BareErrorsStayErrors`,
  `NewClientsAreClean`, `OnlyVerifiedAreServed` and `OffsetServedIsUsable`. For the first,
  the invariant says what a call that has the closure to itself finds in it at each point
  (its own parameter once loaded, its own response once assigned), that a call under way
  and not marked has nobody beside it, and that a service answers data about what it was
  sent, however late: what an earlier call left is overwritten before it is read. Bare
  errors rest on `Heard` (what a client has heard is what the service wrote, which stays)
  and `Bare` (what is written without a Response has a status of an error and no data).
  `Clean` is the third property for the client object as well as for what was sent with
  it. The fourth needs `Senders`: a body is made of the parameter of a call that has been
  asked, so that the token in it does not change any more (`StaysAsked`); `Verified` then
  says the property of the user already when the guard has let the request in. The last is
  arithmetic: a list is served with the parameter its validation passed (`ServedLists`),
  and for every width of int32 `PageHolds` and `PageRead` relate page, offset and limit.
- `ServiceProofs`: type correctness and `CatalogFollowsRun`. `Listed` says that an identifier in
  the list leads to the instance that uses it, `Identified` that an instance with a consul
  client has its identifier, and `Follows` is the property for instances whose identifier
  no other *registered* instance has (`Alone`), which is what a registration can break.
- `SessionProofs`: type correctness, `NameLeadsToUser`, `NotLongerThanConfigured` and
  `DisabledRunsOut`. `Hands` says what a call has in hand at each point: its name, its
  user, a user of its own that is not stored yet, and an expiry counted from no later than
  iat. The second theorem is for timeouts of any length, in which cutting may add less than a
  second, and rests on lemmas about cutting to whole seconds. The third
  compares each step with the one before (`Follows`): a call that is signing for a user was
  signing for it already, or comes from a login whose user is not disabled, or from a
  token that has not expired.
- `TreeProofs`: type correctness, `RemovedLeavesParent`, `RemovesChildren` and
  `LevelsFollowChildren`. The invariant has two parts. `Sound` is about links: nothing links
  to a node that was never made (`Made`), a node is a child of its parent unless it was added
  at the root (`Kept`, `Placed`), a node that is not in the index is no child of its parent
  (`Left`), and the level of a root is that of the root and of Anchor only (`Roots`), for Add
  asks a node whether it is the root by its level. The lemmas say of each helper
  (`AddToParent`, `AddGhost`, `SetLevel`, `Removed`, `Linked`) that it keeps this of any heap,
  so that Add is a composition of facts; that `Closure` is closed and least is what
  `RemovesChildren` needs of `Below`.

  `Ordered` is about levels. `LevelsFollowChildren` speaks of forests in which no node is a child
  of two, but calls pass through heaps in which some are, and back: setLevel stops at children
  that have their level already, and a node it reaches twice keeps the level of either visit.
  So the invariant says of every heap which nodes may have a wrong level: those that are a
  child of two nodes other than Anchor (`Torn`) and all that is below them (`Excused`).
  Every other node that the root or Anchor leads to (`Forest`) is one level below its parent
  (`Fits`). What moves a node leaves only that node out of order (`LinkOrders`): if the move
  makes more of the heap reachable, then the node had another parent, and is torn. For
  setLevel, `Rounds` are its visits by depth. It ends only if it does not get back to
  where it began (`EndsAway`), then a node that is not excused is visited at one depth only
  (`OneDepth`), through its one parent, and so ends one level below it (`ChildOneBelow`). In
  TreeOf nobody is torn, so that a visit at every depth would be of more nodes than there are
  (`RoundsEnd`). This is why `Ids` is assumed finite, as any data are.
- `ListingProofs`, about lists: `UrlFiltersKept`, `TotalMatchesPage` and `PagesCoverList`, of `PagingSpec`,
  that is, whatever the where clause is made of. For the first, `LoadedSearch` says what
  either order of loading leaves in the search; `NothingInvented` and `LookedForArrive` hold of
  any query string, and `TellingKept` of a plain one, whose likes are those asked for
  (`LikeArrives`) and those of exact matches (`LikeOfNamed`). For the second, `Requesting` follows a request: its boundaries are those of its
  page, its builder is made of them (`Sending`), and its rows are a window of an order of
  what is counted (`Windowed`). The third needs to know of every row where it stands:
  `At` is the rank a row has in the list as the table is now. A row that was not read yet
  has a rank no page so far has reached (`NoneMissed`), which insertions only raise, and a
  row that was read and is still there has a rank below the next page's (`NoneTwice`),
  which deletions only lower. `PageOf` says that a page has the rows of its ranks, once
  each, and that it is full if there are rows beyond it; failed requests and pages asked
  for again are steps like others.

- `ListingProofs`, about criteria: `ClauseMeansConditions`, `ArgumentsMatchText` and
  `KeepsPromises`, of `ListingSpec`, for conditions nested to any depth and every order of
  the maps. `QueryInv` says what `where` is: the lists of the conditions asked so far, one
  after the other (`WhereIs`), which the steps keep because what Where appends comes last
  (`GatherAppend`). The rest is about the text of such lists, and goes down the nesting.
  That arguments stand at their placeholders is kept by joining texts (`JoinedMatched`), in
  whatever order (`NodeTextMatched`). For the meaning, `PartsOfGroup` says that the group of
  a constraint holds when the parts that go to it are true, joined by that constraint, and
  `TextOfParts` that the node means its parts: the only one of the other kind may stand alone
  in its group, where a second one would be joined by the wrong word. That is where
  `~Regrouped` is needed, and `NodesKeepTheirJoin` fails without it; that a leaf means itself is
  where `Misread = {}` is. With the filters of a
  query string asked, and nothing else (`StageInv`), the clause selects what they are true of
  (`ClauseSelects`), which is what `Paging` asks of it: so each step of `Listing` is a step of
  `Paging` (`ListingStep`), and the three theorems above hold of lists with their real clause
  (`ListsAreCovered`).

Induction over that nesting, and over sequences, does not use the library's induction
theorems, whose parameter is an operator. It goes through sets: a set of numbers has a least
one (`LeastNumber`, by `WFMin`), hence a set that has every element it has all lower ones of is
everything (`RankInduction`), and a recursive definition that looks at lower ranks has a
solution (`RecursionHasSolution`), which is what the CHOOSE behind a recursive function needs.
`SeqInduction` is the same for sequences, and unfolds `FlattenSeq` (`FlattenAppend`).

Only model-checked: all liveness (`QueueIsServed`, `LoopsReturn`, `EndsWithConnection`,
`OpensFinish`, `ServedByMates`, `CallsReturn`, `SignalEnds`, `TasksSettle`), for the provers
handle neither fairness nor ENABLED. Every other property of a passing run is proved.

## 6. What the violation runs show

- `worker_context`: after the context is done, the goroutine of a failure that
  nobody took stays blocked on `errs`, with a message already acknowledged
  (`mq/worker.go:146`), although `mq/commons.go:70` says the worker terminates with its
  context.
- `tree_add`: a node made by Add has no children map, and adding below it panics.
- `session_issue`: when a second begins between the readings for iat and nbf, the
  token is never accepted.
- `query_join`: two Or conditions side by side are joined with or instead of and.
Two more disagreements are in the models without a run of their own; `UrlFiltersKept` is stated
so that it allows them:

- The key of an exact match is read as that of a like, too (`query/url_search.go:125`), although
  `query/utils.go:15` calls it an exact match. The like is implied by the match, but the database
  refuses it on a column that is no text, and it takes the place of a like that was asked for.
- Null filters are dropped when no exact match is beside them (`query/url_search.go:137`), so that
  `?name_null=true` alone selects every row, although `query/utils.go:10` names them as filters.

## 7. Limits of the models

- The broker and the amqp library are modelled from how the code uses them: topic
  routing by equality of keys (no wildcards), requeue on disconnection, closing of
  a channel on a refused call.
- User functions return and keep no state; a panic in one is an end of the process.
- The unsynchronised maps of `mq` are taken as atomic; those of the user store are not.
- `Tree` leaves out TreeOf without data, duplicate identifiers, and the use of an
  identifier again after its node was removed.
- `Session` leaves out signature, issuer and audience, and takes the store in memory.
- `UrlSearch` takes one list of fields for lookups and comparisons, as `Load` does, and leaves out
  the empty keys that `Variations` begins its list with and the values a boolean is not read from.
- `Query` leaves out the text of operators, `Paging` the writing of rows in place (an
  update is a deletion and an insertion) and Group. With two sort keys, or none, pages
  need not fit together, since the keys come from a map.
- `Api` leaves out the variants of handlers that differ in type parameters only, references
  and headers of a response, and takes the routine's outcome as any. A second request of
  one id, and metadata stored under another key than it is read from (lists by id), are
  modelled as they are.
- `Client` leaves out cookies and `Out`, whose target is never filled (`http/client.go:150`
  asks for the opposite). `ErrorModel`'s list of errors is not data, which is so for every
  T but a list of strings. A value of an interface is not torn in the closure's race.
- `Exchange` leaves out the end of a channel while its process stays up, which `Worker` has.
- `App` takes the agent's answers as prompt; a second signal in shutdown is dropped, as
  Notify does. `SERVICE_HOST` and the other look-ups are values of the environment.
- `Tasks` lets a timer that nobody listens to stay blocked, which the code does, too:
  `TasksSettle` is about what callers wait for.
- Not modelled, with reasons in `PROJECT.json`: collections other than the tree, value
  helpers, logging, storage, Cognito, configuration.

## 8. Plan

Done, in this order: `Worker` with its ledger, `Connection`, `Tree`, `Session`, `Query`,
`Exchange`, the proofs of `Worker`, `Connection`, `Exchange` and `Session`; then `Api`,
`Client`, `Gateway`, `App`, `Tasks`, `Service` and the proofs of `Gateway` and `Service`; then
`Listing`, and two keys in one queue; then `Tree` without recursion, `Paging` apart from
the criteria, the proofs of `Tree` and `Paging`, those of the criteria and of `Listing`, and
that of the levels of `Tree`. Left:

1. Tree with identifiers used again after removal.
2. Plain queues as one more kind of consumer in `Exchange`.
3. An abstract "at most this many attempts" that WithRetry refines.

Not modelled: what `PROJECT.json` lists as such, each with its reason. Those parts keep
no state beyond a call, or are configuration, formatting, output, and clients of other
services that are only constructed.
