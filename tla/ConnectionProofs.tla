-------------------------- MODULE ConnectionProofs --------------------------
(***************************************************************************)
(* What Connection guarantees for any number of users: whose queue a user   *)
(* consumes, when Channel() may yield nil, and that nothing is ever opened  *)
(* again.                                                                  *)
(***************************************************************************)
EXTENDS Connection, TLAPS

USE DEF Callers, Opening, Running, Loaded, shutdown, client, remote, Exit, Go, Busy, Uses

IInv == TypeOK /\ SerialOpensGetOwnQueue /\ NilOnlyInShutdown /\ Openings /\ Lifecycle

(* One step of the goroutine running reconnect keeps the invariant.         *)
LEMMA MainKeepsIInv == ASSUME IInv, Main PROVE IInv'
<1> USE CallersAssumption
    DEF IInv, TypeOK, SerialOpensGetOwnQueue, NilOnlyInShutdown, Openings, Lifecycle
<1>1. CASE Dial
  BY <1>1 DEF Dial
<1>2. CASE DialFails \/ OpenFails \/ TakeLoss \/ AfterConnect
  BY <1>2 DEF DialFails, OpenFails, TakeLoss, AfterConnect
<1>3. CASE OpenChannel
  BY <1>3 DEF OpenChannel
<1>4. CASE TakeClosed
  <2>1. TypeOK'
    BY <1>4 DEF TakeClosed
  <2>2. SerialOpensGetOwnQueue' /\ NilOnlyInShutdown'
    BY <1>4 DEF TakeClosed
  <2>3. Openings'
    BY <1>4 DEF TakeClosed
  <2>4. Lifecycle'
    BY <1>4 DEF TakeClosed
  <2>5. QED
    BY <2>1, <2>2, <2>3, <2>4
<1>5. CASE MainCloses
  <2>1. CASE Exit("close")
    BY <2>1
  <2>2. CASE ~Exit("close")
    <3>1. TypeOK'
      BY <1>5, <2>2 DEF MainCloses
    <3>2. SerialOpensGetOwnQueue' /\ NilOnlyInShutdown'
      BY <1>5, <2>2 DEF MainCloses
    <3>3. Openings'
      <4>1. UNCHANGED <<client, remote>>
        BY <1>5, <2>2 DEF MainCloses
      <4>2. QED
        BY <4>1
    <3>4. Lifecycle'
      BY <1>5, <2>2 DEF MainCloses
    <3>5. QED
      BY <3>1, <3>2, <3>3, <3>4
  <2>3. QED
    BY <2>1, <2>2
<1>6. CASE MainClosesConnection
  <2>1. CASE Exit("close")
    BY <2>1
  <2>2. CASE ~Exit("close")
    <3>1. TypeOK'
      BY <1>6, <2>2 DEF MainClosesConnection, CloseConnection
    <3>2. SerialOpensGetOwnQueue' /\ NilOnlyInShutdown'
      BY <1>6, <2>2 DEF MainClosesConnection, CloseConnection
    <3>3. Openings'
      BY <1>6, <2>2 DEF MainClosesConnection, CloseConnection
    <3>4. Lifecycle'
      BY <1>6, <2>2 DEF MainClosesConnection, CloseConnection
    <3>5. QED
      BY <3>1, <3>2, <3>3, <3>4
  <2>3. QED
    BY <2>1, <2>2
<1>7. QED
  BY <1>1, <1>2, <1>3, <1>4, <1>5, <1>6 DEF Main

(* So does a step of RMQ.Close, of the closer of ready, or of the world.    *)
LEMMA OthersKeepIInv ==
  ASSUME IInv, SignalReady \/ CallClose \/ Closer \/ Lose \/ Cancel PROVE IInv'
<1> USE CallersAssumption
    DEF IInv, TypeOK, SerialOpensGetOwnQueue, NilOnlyInShutdown, Openings, Lifecycle
<1>1. CASE Exit("close")
  BY <1>1
<1>2. CASE SignalReady \/ CallClose \/ Cancel
  <2>1. TypeOK'
    <3>1. CASE SignalReady
      BY <3>1 DEF SignalReady
    <3>2. CASE CallClose
      BY <3>2 DEF CallClose
    <3>3. CASE Cancel
      BY <3>3 DEF Cancel
    <3>4. QED
      BY <1>2, <3>1, <3>2, <3>3
  <2>2. SerialOpensGetOwnQueue' /\ NilOnlyInShutdown'
    BY <1>2 DEF SignalReady, CallClose, Cancel
  <2>3. Openings'
    BY <1>2 DEF SignalReady, CallClose, Cancel
  <2>4. Lifecycle'
    BY <1>2 DEF SignalReady, CallClose, Cancel
  <2>5. QED
    BY <2>1, <2>2, <2>3, <2>4
<1>3. CASE Lose /\ ~Exit("close")
  BY <1>3 DEF Lose
<1>4. CASE CloserCloses /\ ~Exit("close")
  <2>1. TypeOK'
    <3>1. /\ closer' \in {"closing", "done"} /\ channel' \in {channel, "nil"}
          /\ errOpen' = FALSE
          /\ UNCHANGED <<exit, main, conn, ready, done, client, remote>>
      BY <1>4 DEF CloserCloses
    <3>2. closer' \in {"idle", "begin", "closing", "done"} /\ errOpen' \in BOOLEAN
          /\ channel' \in {"nil", "open", "broken"}
          /\ (subs' # {} => channel' # "broken")
      BY <3>1
    <3>3. QED
      BY <3>1, <3>2
  <2>2. SerialOpensGetOwnQueue' /\ NilOnlyInShutdown'
    BY <1>4 DEF CloserCloses
  <2>3. Openings'
    BY <1>4 DEF CloserCloses
  <2>4. Lifecycle'
    BY <1>4 DEF CloserCloses
  <2>5. QED
    BY <2>1, <2>2, <2>3, <2>4
<1>5. CASE CloserClosesConnection /\ ~Exit("close")
  BY <1>5 DEF CloserClosesConnection, CloseConnection
<1>6. QED
  BY <1>1, <1>2, <1>3, <1>4, <1>5 DEF Closer

(* The beginning of an opening keeps it: what it overlaps is marked.        *)
LEMMA BeginKeepsIInv ==
  ASSUME IInv, NEW c \in Callers, caller[c] = "idle", Begins(c),
         c = Restorer => exchanges # None
  PROVE  IInv'
<1> USE CallersAssumption
<1>1. TypeOK' /\ Lifecycle' /\ NilOnlyInShutdown'
  BY DEF IInv, TypeOK, Lifecycle, NilOnlyInShutdown, Begins
<1>2. overlapped \subseteq overlapped'
  BY DEF Begins
<1>3. SerialOpensGetOwnQueue'
  BY <1>2 DEF IInv, SerialOpensGetOwnQueue, Begins
<1>4. ASSUME NEW u \in Users, NEW b \in Callers, Busy(u)', Busy(b)', b # u
      PROVE  u \in overlapped'
  <2>1. CASE c = u
    BY <1>4, <2>1 DEF IInv, TypeOK, Begins
  <2>2. CASE c = b
    BY <1>4, <2>2 DEF IInv, TypeOK, Begins
  <2>3. CASE c # u /\ c # b
    <3>1. Busy(u) /\ Busy(b)
      BY <1>4, <2>3 DEF IInv, TypeOK, Begins
    <3>2. QED
      BY <1>2, <1>4, <3>1 DEF IInv, Openings
  <2>4. QED
    BY <2>1, <2>2, <2>3
<1>5. \A u \in Users \ overlapped' :
        caller'[u] \in {"bind", "subscribe"} => declared' = u
  BY <1>2 DEF IInv, TypeOK, Openings, Begins
<1>6. /\ \A u \in Users : caller'[u] \in {"subscribe", "publisher", "open"} => exists'
      /\ \A b \in Callers : caller'[b] \in {"bind", "subscribe"} => declared' # None
      /\ exchanges' # None => exists'
      /\ caller'[Restorer] \in Opening => exchanges' # None
      /\ caller'[Restorer] # "publisher"
  BY DEF IInv, TypeOK, Openings, Begins
<1>7. Openings'
  BY <1>4, <1>5, <1>6 DEF Openings
<1>8. QED
  BY <1>1, <1>3, <1>7 DEF IInv

(* Every step of an opening keeps it.                                       *)
LEMMA OpenKeepsIInv == ASSUME IInv, NEW c \in Callers, Opens(c) PROVE IInv'
<1> USE CallersAssumption
    DEF IInv, TypeOK, SerialOpensGetOwnQueue, NilOnlyInShutdown, Openings, Lifecycle,
        Fails, QueueOf, Sub
<1>1. CASE UseNil(c)
  BY <1>1 DEF UseNil
<1>2. CASE UseBroken(c)
  BY <1>2 DEF UseBroken
<1>3. CASE Declare(c)
  BY <1>3 DEF Declare
<1>4. CASE Refused(c)
  BY <1>4 DEF Refused
<1>5. CASE Bind(c)
  BY <1>5 DEF Bind
<1>6. CASE BindPanics(c)
  BY <1>6 DEF BindPanics
<1>7. CASE Subscribe(c)
  <2>1. TypeOK'
    <3>1. declared \in Users /\ conn = "open"
      BY <1>7 DEF Subscribe
    <3>2. subs' \in SUBSET [queue : Users, exclusive : BOOLEAN, by : Callers]
      <4>1. Sub(declared, c = Restorer, c)
              \in [queue : Users, exclusive : BOOLEAN, by : Callers]
        BY <3>1, Zenon
      <4>2. QED
        BY <1>7, <4>1 DEF Subscribe
    <3>3. caller' \in [Callers -> Opening \cup {"idle", "open", "error"}]
      BY <1>7 DEF Subscribe
    <3>4. QED
      BY <1>7, <3>1, <3>2, <3>3 DEF Subscribe
  <2>2. SerialOpensGetOwnQueue' /\ NilOnlyInShutdown'
    BY <1>7 DEF Subscribe
  <2>3. Openings'
    BY <1>7 DEF Subscribe
  <2>4. Lifecycle'
    BY <1>7 DEF Subscribe
  <2>5. QED
    BY <2>1, <2>2, <2>3, <2>4
<1>8. CASE SubscribeRefused(c)
  BY <1>8 DEF SubscribeRefused
<1>9. QED
  BY <1>1, <1>2, <1>3, <1>4, <1>5, <1>6, <1>7, <1>8 DEF Opens

(* IInv is inductive.                                                       *)
LEMMA Inductive == Spec => []IInv
<1>1. Init => IInv
  BY CallersAssumption
     DEF Init, IInv, TypeOK, SerialOpensGetOwnQueue, NilOnlyInShutdown, Openings, Lifecycle
<1>2. ASSUME IInv, [Next]_vars PROVE IInv'
  <2>1. ASSUME NEW u \in Users, UserBegins(u) PROVE IInv'
    BY <1>2, <2>1, BeginKeepsIInv, CallersAssumption DEF UserBegins
  <2>2. CASE RestoreBegins
    <3>1. CASE exchanges = None
      BY <1>2, <2>2, <3>1, CallersAssumption
         DEF RestoreBegins, IInv, TypeOK, SerialOpensGetOwnQueue, NilOnlyInShutdown,
             Openings, Lifecycle
    <3>2. CASE exchanges # None
      BY <1>2, <2>2, <3>2, BeginKeepsIInv DEF RestoreBegins
    <3>3. QED
      BY <3>1, <3>2
  <2>3. ASSUME NEW u \in Users, OpenPublisher(u) PROVE IInv'
    <3>1. TypeOK' /\ Lifecycle'
      <4>1. exists' \in BOOLEAN
        BY <1>2, <2>3 DEF OpenPublisher, IInv, TypeOK
      <4>2. caller' \in [Callers -> Opening \cup {"idle", "open", "error"}]
        BY <1>2, <2>3 DEF OpenPublisher, IInv, TypeOK
      <4>3. QED
        BY <1>2, <2>3, <4>1, <4>2 DEF OpenPublisher, IInv, TypeOK, Lifecycle
    <3>2. SerialOpensGetOwnQueue' /\ NilOnlyInShutdown'
      BY <1>2, <2>3 DEF OpenPublisher, IInv, SerialOpensGetOwnQueue, NilOnlyInShutdown
    <3>3. Openings'
      BY <1>2, <2>3, CallersAssumption DEF OpenPublisher, IInv, TypeOK, Openings
    <3>4. QED
      BY <3>1, <3>2, <3>3 DEF IInv
  <2>4. CASE UNCHANGED vars
    BY <1>2, <2>4
       DEF vars, IInv, TypeOK, SerialOpensGetOwnQueue, NilOnlyInShutdown,
           Openings, Lifecycle
  <2>5. QED
    BY <1>2, <2>1, <2>2, <2>3, <2>4, MainKeepsIInv, OthersKeepIInv, OpenKeepsIInv
       DEF Next
<1>3. QED
  BY <1>1, <1>2, PTL DEF Spec

(* Typing holds in every reachable state.                                   *)
THEOREM TypeCorrect == Spec => []TypeOK
BY Inductive, PTL DEF IInv

(* An opening that overlaps no other consumes its own queue.                *)
THEOREM SerialOpensHold == Spec => []SerialOpensGetOwnQueue
BY Inductive, PTL DEF IInv

(* Channel() yields nil only once close() has begun.                        *)
THEOREM NilOnlyInShutdownHolds == Spec => []NilOnlyInShutdown
BY Inductive, PTL DEF IInv
-----------------------------------------------------------------------------
(* No step opens a connection that was lost or closed, or a channel that was *)
(* broken: connect dials with no connection and opens a channel with none.  *)
LEMMA StepOpensNothingAgain ==
  ASSUME IInv, [Next]_vars
  PROVE  /\ conn \in {"lost", "closed"} => conn' # "open"
         /\ channel = "broken" => channel' # "open"
<1> USE DEF IInv, Lifecycle
<1>1. CASE Main
  BY <1>1 DEF Main, Dial, DialFails, OpenChannel, OpenFails, TakeLoss, TakeClosed,
              AfterConnect, MainCloses, MainClosesConnection, CloseConnection
<1>2. CASE SignalReady \/ CallClose \/ Closer \/ Lose \/ Cancel \/ RestoreBegins
  BY <1>2 DEF SignalReady, CallClose, Closer, CloserCloses, CloserClosesConnection,
              CloseConnection, Lose, Cancel, RestoreBegins, Begins
<1>3. ASSUME NEW c \in Callers, Opens(c)
      PROVE  UNCHANGED conn /\ (channel = "broken" => channel' # "open")
  BY <1>3 DEF Opens, UseNil, UseBroken, Declare, Refused, Bind, BindPanics, Subscribe,
              SubscribeRefused
<1>4. ASSUME NEW u \in Users, UserBegins(u) \/ OpenPublisher(u)
      PROVE  UNCHANGED <<conn, channel>>
  BY <1>4 DEF UserBegins, Begins, OpenPublisher
<1>5. QED
  BY <1>1, <1>2, <1>3, <1>4 DEF Next, vars

(* The name reconnect notwithstanding, nothing is opened again.             *)
THEOREM NoReconnectHolds == Spec => NoReconnect
BY Inductive, StepOpensNothingAgain, PTL DEF Spec, NoReconnect

(* No step creates the exchange: only OpenPublisher could, and it comes       *)
(* after a binding that needed it.                                          *)
LEMMA StepKeepsExists == ASSUME IInv, [Next]_vars PROVE exists' = exists
<1> USE DEF IInv, Openings, TypeOK
<1>1. CASE Main
  BY <1>1 DEF Main, Dial, DialFails, OpenChannel, OpenFails, TakeLoss, TakeClosed,
              AfterConnect, MainCloses, MainClosesConnection, CloseConnection
<1>2. CASE SignalReady \/ CallClose \/ Closer \/ Lose \/ Cancel \/ RestoreBegins
  BY <1>2 DEF SignalReady, CallClose, Closer, CloserCloses, CloserClosesConnection,
              CloseConnection, Lose, Cancel, RestoreBegins, Begins
<1>3. ASSUME NEW c \in Callers, Opens(c) PROVE exists' = exists
  BY <1>3 DEF Opens, UseNil, UseBroken, Declare, Refused, Bind, BindPanics, Subscribe,
              SubscribeRefused
<1>4. ASSUME NEW u \in Users, UserBegins(u) PROVE exists' = exists
  BY <1>4 DEF UserBegins, Begins
<1>5. ASSUME NEW u \in Users, OpenPublisher(u) PROVE exists' = exists
  BY <1>5 DEF OpenPublisher
<1>6. QED
  BY <1>1, <1>2, <1>3, <1>4, <1>5 DEF Next, vars

(* A worker is never what creates the exchange.                             *)
THEOREM NeverCreatesExchangeHolds == Spec => NeverCreatesExchange
BY Inductive, StepKeepsExists, PTL DEF Spec, NeverCreatesExchange
=============================================================================
