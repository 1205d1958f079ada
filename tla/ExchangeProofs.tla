--------------------------- MODULE ExchangeProofs ---------------------------
(***************************************************************************)
(* Whose messages a worker runs, and where a retry comes back, for any       *)
(* number of workers, connections, exchanges, keys and publications.        *)
(***************************************************************************)
EXTENDS Exchange, TLAPS

USE SetupsAssumption DEF Configs, Copies, At, Absent, Queued, Lost, Done

IInv == TypeOK /\ OnlyMatesRun /\ Custody

LEMMA InitIInv == Init => IInv
<1> SUFFICES ASSUME Init PROVE IInv
  OBVIOUS
<1>1. TypeOK
  <2>1. 0 \in 0 .. MaxCrashes[setup]
    BY BoundAssumption DEF Init
  <2> QED  BY <2>1 DEF Init, TypeOK
<1>2. OnlyMatesRun
  BY DEF Init, OnlyMatesRun
<1>3. Custody
  BY DEF Init, Custody
<1> QED  BY <1>1, <1>2, <1>3 DEF IInv

(* What a routed publication adds to the places of the copies.              *)
LEMMA RoutedPlaces ==
  ASSUME NEW f, NEW p, NEW n, NEW k, NEW c \in Copies
  PROVE  /\ c[1] = p /\ <<n, k, c[2]>> \in bound => Routed(f, p, n, k)[c] = Queued
         /\ ~(c[1] = p /\ <<n, k, c[2]>> \in bound) => Routed(f, p, n, k)[c] = f[c]
  BY DEF Routed

LEMMA RoutedTyped ==
  ASSUME NEW S, Queued \in S, NEW f \in [Copies -> S], NEW p, NEW n, NEW k
  PROVE  Routed(f, p, n, k) \in [Copies -> S]
  BY DEF Routed

LEMMA WorkerSteps ==
  ASSUME IInv, NEW w \in Workers, StartWorker(w) \/ Cancel(w) \/ Returns(w)
  PROVE  IInv'
<1>1. CASE StartWorker(w)
  <2>1. TypeOK'
    BY <1>1 DEF StartWorker, IInv, TypeOK
  <2>2. OnlyMatesRun'
    BY <1>1 DEF StartWorker, IInv, OnlyMatesRun, Mates
  <2>3. Custody'
    BY <1>1 DEF StartWorker, IInv, Custody, Mates, Unsent
  <2> QED  BY <2>1, <2>2, <2>3 DEF IInv
<1>2. CASE Cancel(w) \/ Returns(w)
  <2>1. TypeOK'
    BY <1>2 DEF Cancel, Returns, broker, IInv, TypeOK
  <2>2. OnlyMatesRun'
    BY <1>2 DEF Cancel, Returns, broker, IInv, OnlyMatesRun, Mates
  <2>3. Custody'
    BY <1>2 DEF Cancel, Returns, broker, IInv, Custody, Mates, Unsent
  <2> QED  BY <2>1, <2>2, <2>3 DEF IInv
<1> QED  BY <1>1, <1>2

Hands == [at : {"buffered", "pumped", "running", "acking"}, by : Workers]
Places == {Absent, Queued, Lost, Done} \cup Hands

(* A copy on its way from the broker to a worker, and its failure.          *)
LEMMA CopySteps ==
  ASSUME IInv, NEW w \in Workers, NEW v \in Workers, NEW c \in Copies,
         \/ Deliver(c, w) \/ Pump(w, c) \/ Receive(v, w, c)
         \/ Settle(w, c) \/ Fail(w, c) \/ Ack(w, c) \/ GiveUp(w, c)
  PROVE  IInv'
<1> USE DEF IInv, Moves, workers, broker
<1>1. CASE Deliver(c, w)
  <2>1. TypeOK'
    BY <1>1 DEF Deliver, TypeOK
  <2>2. OnlyMatesRun'
    BY <1>1 DEF Deliver, OnlyMatesRun, Mates
  <2>3. Custody'
    BY <1>1 DEF Deliver, Custody, Mates, Unsent, TypeOK
  <2> QED  BY <2>1, <2>2, <2>3
<1>2. CASE Pump(w, c)
  <2>1. TypeOK'
    BY <1>2 DEF Pump, TypeOK
  <2>2. OnlyMatesRun'
    BY <1>2 DEF Pump, OnlyMatesRun, Mates
  <2>3. Custody'
    BY <1>2 DEF Pump, Custody, Mates, Unsent, TypeOK
  <2> QED  BY <2>1, <2>2, <2>3
<1>3. CASE Receive(v, w, c)
  <2>0. setup[w].queue = c[2] /\ Mates(v, w)
    BY <1>3 DEF Receive, Custody, Incoming, DeclareExchange, Mates
  <2>1. TypeOK'
    BY <1>3 DEF Receive, TypeOK
  <2>2. OnlyMatesRun'
    BY <1>3, <2>0 DEF Receive, OnlyMatesRun, Mates, TypeOK
  <2>3. Custody'
    <3>1. place' = [place EXCEPT ![c] = At("running", v)] /\ place[c] # Absent
      BY <1>3 DEF Receive
    <3>2. \A d \in Copies : place'[d] = place[d] \/ (d = c /\ place'[d] = At("running", v))
      BY <3>1 DEF TypeOK
    <3> QED  BY <1>3, <2>0, <3>1, <3>2 DEF Receive, Custody, Mates, Unsent
  <2> QED  BY <2>1, <2>2, <2>3
<1>4. CASE Settle(w, c) \/ Ack(w, c)
  <2>0. /\ place' = [place EXCEPT ![c] = Done] /\ place[c] # Absent
        /\ UNCHANGED <<workers, broker, owed, ran, retryOf, crashes>>
    BY <1>4 DEF Settle, Ack
  <2>4. \A d \in Copies : place'[d] = place[d] \/ (d = c /\ place'[d] = Done)
    BY <2>0 DEF TypeOK
  <2>1. TypeOK'
    BY <2>0 DEF TypeOK
  <2>2. OnlyMatesRun'
    BY <2>0 DEF OnlyMatesRun, Mates
  <2>3. Custody'
    BY <2>0, <2>4 DEF Custody, Mates, Unsent
  <2> QED  BY <2>1, <2>2, <2>3
<1>5. CASE Fail(w, c)
  <2>0. /\ ~Unsent(c[1])
        /\ \E u \in Workers : setup[u].queue = c[2] /\ Mates(w, u)
    BY <1>5 DEF Fail, Custody
  <2>1. TypeOK'
    BY <1>5 DEF Fail, TypeOK
  <2>2. OnlyMatesRun'
    BY <1>5 DEF Fail, OnlyMatesRun, Mates
  <2>3. Custody'
    <3>1. \A d \in Copies : place'[d] = place[d] \/ (d = c /\ place'[d] = At("acking", w))
      BY <1>5 DEF Fail, TypeOK
    <3>2. \A o \in owed' : o \in owed \/ (o[1] = w /\ o[2] = c)
      BY <1>5 DEF Fail
    <3> QED  BY <1>5, <2>0, <3>1, <3>2 DEF Fail, Custody, Mates, Unsent
  <2> QED  BY <2>1, <2>2, <2>3
<1>6. CASE GiveUp(w, c)
  <2>1. TypeOK'
    BY <1>6 DEF GiveUp, TypeOK
  <2>2. OnlyMatesRun' /\ Custody'
    BY <1>6 DEF GiveUp, OnlyMatesRun, Custody, Mates, Unsent
  <2> QED  BY <2>1, <2>2
<1> QED  BY <1>1, <1>2, <1>3, <1>4, <1>5, <1>6

LEMMA PublishSteps ==
  ASSUME IInv, NEW p \in Publications, NEW n \in Names, NEW k \in Keys, Publish(p, n, k)
  PROVE  IInv'
<1> USE DEF IInv, Publish, workers
<1>1. TypeOK'
  <2>1. place' \in [Copies -> Places]
    BY RoutedTyped DEF TypeOK, Places, Hands
  <2>2. \A c \in Copies : place'[c] = Queued => c[2] \in exists
    BY DEF Routed, TypeOK
  <2> QED  BY <2>1, <2>2 DEF TypeOK, Places, Hands
<1>2. OnlyMatesRun'
  BY DEF OnlyMatesRun, Mates
<1>3. Custody'
  <2>1. \A q \in Publications : ~Unsent(q) => sent'[q] = sent[q]
    BY DEF Unsent, TypeOK
  <2>0. <<n, k>> # <<None, None>>
    BY ONLY n \in Names, None \notin Workers \cup Keys \cup Names \cup Copies
  <2>2. sent'[p] = <<n, k>>
    BY DEF TypeOK
  <2>3. \A c \in Copies : place'[c] = place[c] \/ (place'[c] = Queued /\ c[1] = p)
    <3>1. place' = Routed(place, p, n, k)
      OBVIOUS
    <3>2. ASSUME NEW c \in Copies
          PROVE  place'[c] = place[c] \/ (place'[c] = Queued /\ c[1] = p)
      BY ONLY <3>1, <3>2 DEF Routed, Copies, Queued, At
    <3> QED  BY <3>2
  <2>4. \A o \in owed : o[2][1] \in Publications
    BY DEF TypeOK
  <2> QED  BY <2>0, <2>1, <2>2, <2>3, <2>4 DEF Custody, Mates, Unsent
<1> QED  BY <1>1, <1>2, <1>3

LEMMA RetrySteps ==
  ASSUME IInv, NEW v \in Workers, NEW d \in Copies, NEW p \in Publications, Retry(v, d, p)
  PROVE  IInv'
<1> DEFINE n == setup[v].name
           k == sent[d[1]][2]
<1> USE DEF IInv
<1>0. /\ <<v, d>> \in owed /\ Unsent(p)
      /\ owed' = owed \ {<<v, d>>}
      /\ sent' = [sent EXCEPT ![p] = <<n, k>>]
      /\ place' = Routed(place, p, n, k)
      /\ retryOf' = [retryOf EXCEPT ![p] = d]
      /\ UNCHANGED <<workers, subscribed, bound, exists, ran, crashes>>
  BY Zenon DEF Retry
<1>1. d[1] \in Publications /\ sent[d[1]] # <<None, None>>
  BY <1>0 DEF Custody, Unsent, TypeOK
<1>2. n \in Names /\ k \in Keys
  BY <1>1 DEF TypeOK
<1>3. place \in [Copies -> Places] /\ Queued \in Places
  BY DEF TypeOK, Places, Hands
<1> HIDE DEF n, k
<1>4. place' \in [Copies -> Places]
  BY <1>0, <1>3, RoutedTyped
<1>5. \A c \in Copies : place'[c] = place[c]
                          \/ (place'[c] = Queued /\ c[1] = p /\ <<n, k, c[2]>> \in bound)
  BY <1>0, RoutedPlaces
<1>6. sent' \in [Publications -> (Names \X Keys) \cup {<<None, None>>}]
  BY <1>0, <1>2 DEF TypeOK
<1>7. \A q \in Publications : ~Unsent(q) => sent'[q] = sent[q]
  BY <1>0 DEF Unsent, TypeOK
<1>8. sent'[p] # <<None, None>>
  BY <1>0, <1>2 DEF TypeOK
<1>9. UNCHANGED <<setup, life, subscribed, bound, exists, ran, crashes>>
  BY <1>0 DEF workers
<1>10. TypeOK'
  <2>1. ASSUME NEW c \in Copies, place'[c] = Queued PROVE c[2] \in exists
    <3>1. CASE place[c] = Queued
      BY <3>1 DEF TypeOK
    <3>2. CASE <<n, k, c[2]>> \in bound
      BY <3>2 DEF TypeOK
    <3> QED  BY <1>5, <2>1, <3>1, <3>2
  <2>2. owed' \in SUBSET (Workers \X Copies) /\ retryOf' \in [Publications -> Copies \cup {None}]
    BY <1>0 DEF TypeOK
  <2> QED  BY <1>4, <1>6, <1>9, <2>1, <2>2 DEF TypeOK, Places, Hands
<1>11. OnlyMatesRun'
  BY <1>9 DEF OnlyMatesRun, Mates
<1>12. Custody'
  <2>1. \A o \in owed' : o \in owed /\ o[2][1] \in Publications
    BY <1>0 DEF TypeOK
  <2>2. \A c \in Copies : c[1] \in Publications
    OBVIOUS
  <2>3. ASSUME NEW c \in Copies
        PROVE  /\ place'[c] # Absent => ~Unsent(c[1])'
               /\ \A w \in Workers :
                    /\ place'[c] \in {At("buffered", w), At("pumped", w)} => setup'[w].queue = c[2]
                    /\ place'[c] \in {At("running", w), At("acking", w)} =>
                          \E u \in Workers : setup'[u].queue = c[2] /\ Mates(w, u)'
    <3>1. CASE place'[c] = place[c]
      BY <1>7, <1>9, <2>2, <3>1 DEF Custody, Mates, Unsent
    <3>2. CASE place'[c] = Queued /\ c[1] = p
      BY <1>8, <3>2 DEF Unsent
    <3> QED  BY <1>5, <3>1, <3>2
  <2>4. ASSUME NEW o \in owed'
        PROVE  /\ ~Unsent(o[2][1])'
               /\ \E u \in Workers : setup'[u].queue = o[2][2] /\ Mates(o[1], u)'
    <3>1. ~Unsent(o[2][1]) /\ \E u \in Workers : setup[u].queue = o[2][2] /\ Mates(o[1], u)
      BY <2>1, <2>4, Zenon DEF Custody
    <3>2. sent'[o[2][1]] = sent[o[2][1]]
      BY <1>7, <2>1, <2>4, <3>1
    <3> QED  BY <1>9, <3>1, <3>2 DEF Mates, Unsent
  <2> QED  BY <2>3, <2>4 DEF Custody
<1> QED  BY <1>10, <1>11, <1>12

(* Unbinding, the end of a queue, the end of the process.                   *)
LEMMA EndSteps ==
  ASSUME IInv, (\E b \in bound : Unbind(b)) \/ (\E q \in Queues : QueueGoes(q)) \/ Crash
  PROVE  IInv'
<1> USE DEF IInv, workers
<1>1. ASSUME NEW b \in bound, Unbind(b) PROVE IInv'
  <2>1. TypeOK'
    BY <1>1 DEF Unbind, TypeOK
  <2>2. OnlyMatesRun' /\ Custody'
    BY <1>1 DEF Unbind, OnlyMatesRun, Custody, Mates, Unsent
  <2> QED  BY <2>1, <2>2
<1>2. ASSUME NEW q \in Queues, QueueGoes(q) PROVE IInv'
  <2>1. TypeOK'
    BY <1>2 DEF QueueGoes, TypeOK
  <2>2. OnlyMatesRun'
    BY <1>2 DEF QueueGoes, OnlyMatesRun, Mates
  <2>3. Custody'
    BY <1>2 DEF QueueGoes, Custody, Mates, Unsent
  <2> QED  BY <2>1, <2>2, <2>3
<1>3. CASE Crash
  <2>1. TypeOK'
    <3>1. crashes' \in 0 .. MaxCrashes[setup']
      <4>1. MaxCrashes[setup] \in Nat /\ crashes \in 0 .. MaxCrashes[setup]
        BY BoundAssumption DEF TypeOK
      <4> QED  BY <1>3, <4>1 DEF Crash
    <3> QED  BY <1>3, <3>1 DEF Crash, TypeOK
  <2>2. OnlyMatesRun'
    BY <1>3 DEF Crash, OnlyMatesRun, Mates
  <2>3. Custody'
    <3>1. \A c \in Copies : place'[c] = place[c] \/ (place[c] # Absent /\ place'[c] \in {Queued, Lost})
      BY <1>3 DEF Crash
    <3> QED  BY <1>3, <3>1 DEF Crash, Custody, Mates, Unsent
  <2> QED  BY <2>1, <2>2, <2>3
<1> QED  BY <1>1, <1>2, <1>3

LEMMA StepKeepsIInv == ASSUME IInv, [Next]_vars PROVE IInv'
<1>1. CASE Next
  <2>1. ASSUME NEW w \in Workers, StartWorker(w) \/ Cancel(w) \/ Returns(w) PROVE IInv'
    BY <2>1, WorkerSteps
  <2>2. ASSUME NEW p \in Publications, NEW n \in Names, NEW k \in Keys, Publish(p, n, k) PROVE IInv'
    BY <2>2, PublishSteps
  <2>3. ASSUME NEW w \in Workers, NEW c \in Copies,
               \/ Deliver(c, w) \/ Pump(w, c)
               \/ Settle(w, c) \/ Fail(w, c) \/ Ack(w, c) \/ GiveUp(w, c)
               \/ \E v \in Workers : Receive(v, w, c)
               \/ \E p \in Publications : Retry(w, c, p)
        PROVE  IInv'
    BY <2>3, CopySteps, RetrySteps
  <2>4. CASE (\E b \in bound : Unbind(b)) \/ (\E q \in Queues : DeleteQueue(q) \/ Expire(q)) \/ Crash
    BY <2>4, EndSteps DEF DeleteQueue, Expire
  <2> QED  BY <1>1, <2>1, <2>2, <2>3, <2>4 DEF Next
<1>2. CASE UNCHANGED vars
  <2>1. TypeOK'
    BY <1>2 DEF IInv, vars, workers, broker, TypeOK
  <2>2. OnlyMatesRun' /\ Custody'
    BY <1>2 DEF IInv, vars, workers, broker, OnlyMatesRun, Custody, Mates, Unsent
  <2> QED  BY <2>1, <2>2 DEF IInv
<1> QED  BY <1>1, <1>2

LEMMA Inductive == Spec => []IInv
  BY InitIInv, StepKeepsIInv, PTL DEF Spec

(* Bindings, consumers and waiting copies are those of declared queues.      *)
THEOREM TypeCorrect == Spec => []TypeOK
  BY Inductive, PTL DEF IInv

(* Only a worker on the same exchange of the same connection runs what a     *)
(* worker subscribed to (DeclareExchange, consumeQueue).                    *)
THEOREM OnlyMatesRunHolds == Spec => []OnlyMatesRun
  BY Inductive, PTL DEF IInv

(* What RetryComesBack says of a step.                                      *)
LEMMA StepRetries ==
  ASSUME IInv, [Next]_vars, NEW p \in Publications, NEW c \in Copies,
         retryOf[p] = None, retryOf'[p] = c,
         BoundForAll(c[2], sent[c[1]][2])
  PROVE  place'[<<p, c[2]>>] = Queued
<1>1. c # None
  BY DEF IInv, TypeOK
<1>2. PICK v \in Workers, d \in Copies, r \in Publications : Retry(v, d, r)
  <2>1. retryOf' # retryOf
    BY <1>1
  <2> QED
    BY <2>1 DEF Next, vars, StartWorker, Cancel, Returns, Publish, Deliver, Pump, Settle, Fail, Ack,
                GiveUp, Receive, Moves, Unbind, DeleteQueue, Expire, QueueGoes, Crash
<1>3. r = p /\ d = c
  BY <1>1, <1>2 DEF Retry, IInv, TypeOK
<1>4. <<setup[v].name, sent[c[1]][2], c[2]>> \in bound
  <2>1. <<v, c>> \in owed
    BY <1>2, <1>3 DEF Retry
  <2>2. PICK u \in Workers : setup[u].queue = c[2] /\ Mates(v, u)
    BY <2>1 DEF IInv, Custody
  <2> QED  BY <2>2 DEF Mates, BoundForAll
<1>5. place' = Routed(place, p, setup[v].name, sent[c[1]][2])
  BY <1>2, <1>3 DEF Retry
<1>6. <<p, c[2]>> \in Copies
  OBVIOUS
<1> QED  BY <1>4, <1>5, <1>6 DEF Routed

(* A retry reaches the queue of the failed copy, whoever ran it, stopping or *)
(* not, while every exchange that may publish it has the queue bound        *)
(* (handleErrors with the route of the message).                            *)
THEOREM RetryComesBackHolds == Spec => RetryComesBack
<1>1. IInv /\ [Next]_vars =>
        [\A p \in Publications : \A c \in Copies :
            /\ retryOf[p] = None /\ retryOf'[p] = c
            /\ BoundForAll(c[2], sent[c[1]][2])
            => place'[<<p, c[2]>>] = Queued]_vars
  BY StepRetries
<1> QED  BY <1>1, Inductive, PTL DEF Spec, RetryComesBack
=============================================================================
