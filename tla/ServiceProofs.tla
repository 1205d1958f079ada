--------------------------- MODULE ServiceProofs ----------------------------
(***************************************************************************)
(* The life of a service for any number of instances, names and hosts, any     *)
(* environments and any tasks.                                              *)
(***************************************************************************)
EXTENDS Service, TLAPS

LEMMA Constants ==
  /\ None \notin Identifiers /\ None \notin Instances /\ MaxSignals \in Nat /\ Tries \in Int
  /\ \A e \in Setups : DOMAIN e \subseteq Instances /\ e \in [DOMAIN e -> Environment]
  BY AppAssumption, TasksAssumption

LEMMA IdTyped ==
  ASSUME AppTypeOK, NEW i \in On, NEW name \in Names
  PROVE  ServiceIdOf(i, name) \in Identifiers
<1>1. env[i] \in Environment
  BY Constants DEF AppTypeOK, On
<1>2. name \in Identifiers /\ AutoId[name][env[i].host] \in Identifiers
  BY <1>1, AppAssumption DEF Environment
<1> QED  BY <1>1, <1>2 DEF ServiceIdOf, Environment

LEMMA NameTyped ==
  ASSUME AppTypeOK, NEW i \in On
  PROVE  env[i].name \in Names /\ i \in Instances
BY Constants DEF AppTypeOK, On, Environment

USE DEF Goes, Phases
-----------------------------------------------------------------------------
(* What a registration does to its instance and to the list.                 *)
LEMMA RegistrationEffect ==
  ASSUME AppTypeOK, NEW i \in On, NEW name \in Names, NEW ok \in BOOLEAN, Registration(i, name, ok)
  PROVE  /\ ~consul[i]
         /\ serviceId' = [serviceId EXCEPT ![i] = ServiceIdOf(i, name)]
         /\ consul' = [consul EXCEPT ![i] = consul'[i]] /\ consul'[i] \in BOOLEAN
         /\ \/ catalog' = [catalog EXCEPT ![ServiceIdOf(i, name)] = i] /\ consul'[i]
            \/ catalog' = catalog /\ (consul'[i] => failed'[i])
         /\ failed' = [failed EXCEPT ![i] = failed'[i]] /\ failed'[i] \in BOOLEAN
BY DEF Registration, Lists, Skips, AppTypeOK

LEMMA AppStepTyped ==
  ASSUME AppTypeOK, NEW i \in On, Steps(i) \/ Others(i)
  PROVE  AppTypeOK'
<1> USE DEF AppTypeOK
<1>1. ASSUME NEW name \in Names, NEW ok \in BOOLEAN, Registration(i, name, ok)
      PROVE  /\ serviceId' \in [On -> Identifiers \cup {None}] /\ consul' \in [On -> BOOLEAN]
             /\ catalog' \in [Identifiers -> Instances \cup {None}] /\ failed' \in [On -> BOOLEAN]
  <2> DEFINE id == ServiceIdOf(i, name)
  <2>1. id \in Identifiers /\ i \in Instances
    BY IdTyped, NameTyped
  <2>2. /\ serviceId' = [serviceId EXCEPT ![i] = id]
        /\ consul' = [consul EXCEPT ![i] = consul'[i]] /\ consul'[i] \in BOOLEAN
        /\ catalog' = [catalog EXCEPT ![id] = i] \/ catalog' = catalog
        /\ failed' = [failed EXCEPT ![i] = failed'[i]] /\ failed'[i] \in BOOLEAN
    BY <1>1, RegistrationEffect
  <2> HIDE DEF id
  <2>3. consul' \in [On -> BOOLEAN]
    BY <2>2
  <2>4. failed' \in [On -> BOOLEAN]
    BY <2>2
  <2>5. catalog' \in [Identifiers -> Instances \cup {None}]
    BY <2>1, <2>2
  <2>6. serviceId' \in [On -> Identifiers \cup {None}]
    BY <2>1, <2>2
  <2> QED  BY <2>3, <2>4, <2>5, <2>6
<1>2. CASE Load(i)
  BY <1>2 DEF Load, On
<1>3. CASE Register(i)
  BY <1>1, <1>3 DEF Register, On
<1>4. CASE RunRegisters(i)
  <2>1. CASE Skips(i) /\ Goes(i, "registered") /\ UNCHANGED <<consul, serviceId, catalog, failed>>
    BY <1>4, <2>1 DEF RunRegisters, On
  <2>2. CASE \E ok \in BOOLEAN :
               Registration(i, env[i].name, ok) /\ Goes(i, IF ok THEN "registered" ELSE "killed")
    <3>1. /\ serviceId' \in [On -> Identifiers \cup {None}] /\ consul' \in [On -> BOOLEAN]
          /\ catalog' \in [Identifiers -> Instances \cup {None}] /\ failed' \in [On -> BOOLEAN]
      BY <1>1, <2>2, NameTyped
    <3>2. phase' \in [On -> Phases]
      BY <2>2
    <3> QED  BY <1>4, <3>1, <3>2 DEF RunRegisters, On
  <2> QED  BY <1>4, <2>1, <2>2 DEF RunRegisters
<1>5. CASE Notify(i)
  BY <1>5 DEF Notify, On
<1>9. CASE StartRouter(i)
  BY <1>9 DEF StartRouter, On
<1>10. CASE Wake(i)
  BY <1>10 DEF Wake, On
<1>11. CASE Crash(i)
  BY <1>11 DEF Crash, On
<1>6. CASE Signal(i)
  <2>1. signals' \in [On -> 0 .. MaxSignals]
    BY <1>6, Constants DEF Signal
  <2>2. phase' \in [On -> Phases] /\ osc' \in [On -> 0 .. 1]
    BY <1>6 DEF Signal
  <2> QED  BY <1>6, <2>1, <2>2 DEF Signal, On
<1>7. CASE Deregister(i)
  <2>1. catalog' \in [Identifiers -> Instances \cup {None}] /\ failed' \in [On -> BOOLEAN]
    BY <1>7 DEF Deregister
  <2> QED  BY <1>7, <2>1 DEF Deregister, On
<1>8. CASE Lookup(i)
  <2>1. \A name \in Identifiers : catalog[name] \in Instances \cup {None}
    OBVIOUS
  <2> QED  BY <1>8, <2>1 DEF Lookup, On
<1> QED  BY <1>2, <1>3, <1>4, <1>5, <1>6, <1>7, <1>8, <1>9, <1>10, <1>11 DEF Steps, Others

TaskStep ==
    \/ TasksStart \/ Read \/ ReaderStops(CtxDone)
    \/ \E r \in Retries : Try(r) \/ Sleep(r)
    \/ \E t \in Timeouts : Select(t) \/ FnReturns(t) \/ TimeIsUp(t)
    \/ \E w \in Writes : BeginWrite(w, CtxDone)

LEMMA TaskStepTyped ==
  ASSUME TasksTypeOK, TaskStep
  PROVE  TasksTypeOK'
<1> USE DEF TasksTypeOK
<1>1. CASE \E r \in Retries : StartRetry(r) \/ Sleep(r)
  BY <1>1 DEF StartRetry, Sleep
<1>2. ASSUME NEW r \in Retries, Try(r) PROVE TasksTypeOK'
  <2>1. calls' \in [Retries -> Nat] /\ UNCHANGED <<timeout, timer, write, reading>>
    BY <1>2 DEF Try
  <2>2. retry' \in [Retries -> {"idle", "trying", "asleep", "ok", "error"}]
    BY <1>2 DEF Try
  <2>3. tries' \in [Retries -> Int]
    BY <1>2 DEF Try
  <2> QED  BY <2>1, <2>2, <2>3
<1>3. CASE \E t \in Timeouts : StartTimeout(t) \/ Select(t) \/ FnReturns(t) \/ TimeIsUp(t)
  BY <1>3 DEF StartTimeout, Select, FnReturns, TimeIsUp
<1>4. CASE Read \/ ReaderStops(CtxDone) \/ \E w \in Writes : StartWrite(w) \/ BeginWrite(w, CtxDone)
  BY <1>4 DEF Read, ReaderStops, StartWrite, BeginWrite
<1> QED  BY <1>1, <1>2, <1>3, <1>4 DEF TaskStep, TasksStart

LEMMA NextSplits ==
  ASSUME [Next]_vars
  PROVE  \/ \E i \in On : (Steps(i) \/ Others(i)) /\ UNCHANGED tasks
         \/ TaskStep /\ UNCHANGED app
         \/ UNCHANGED vars
BY Zenon DEF Next, TaskStep, InProcess, RetryGoesOn, TimeoutGoesOn, TimerGoesOn, WriteGoesOn, ReaderGoesOn

LEMMA TypeOKStep ==
  ASSUME TypeOK, [Next]_vars
  PROVE  TypeOK'
<1>1. CASE \E i \in On : (Steps(i) \/ Others(i)) /\ UNCHANGED tasks
  BY <1>1, AppStepTyped DEF TypeOK, tasks, TasksTypeOK
<1>2. CASE TaskStep /\ UNCHANGED app
  BY <1>2, TaskStepTyped DEF TypeOK, app, AppTypeOK, On
<1>3. CASE UNCHANGED vars
  BY <1>3 DEF TypeOK, vars, app, tasks, AppTypeOK, TasksTypeOK, On
<1> QED  BY <1>1, <1>2, <1>3, NextSplits

(* The processes, the agent's list and the tasks keep their types.             *)
THEOREM TypeCorrect == Spec => []TypeOK
<1>1. Init => TypeOK
  BY Constants DEF Init, TypeOK, AppInit, AppTypeOK, TasksInit, TasksTypeOK
<1>2. TypeOK /\ [Next]_vars => TypeOK'
  BY TypeOKStep
<1> QED  BY <1>1, <1>2, PTL DEF Spec
-----------------------------------------------------------------------------
Live == {"ready", "registered", "notified", "waiting", "shutdown"}

(* What the agent lists was registered, under the identifier it still has.     *)
Listed ==
    \A s \in Identifiers :
        catalog[s] # None => /\ catalog[s] \in On /\ consul[catalog[s]]
                             /\ serviceId[catalog[s]] = s

(* An instance has an identifier with its client.                              *)
Identified ==
    \A i \in On : consul[i] => phase[i] # "off" /\ serviceId[i] \in Identifiers

(* No other instance that has a client has this one's identifier.              *)
Alone(i) == \A j \in On \ {i} : consul[j] => serviceId[j] # serviceId[i]

Follows(i) ==
    consul[i] /\ ~failed[i] /\ Alone(i) =>
        /\ phase[i] \in Live => catalog[serviceId[i]] = i
        /\ phase[i] = "done" => catalog[serviceId[i]] # i

IInv == TypeOK /\ Listed /\ Identified /\ (\A i \in On : Follows(i))

(* A step that leaves the agent and the identifiers alone.                     *)
Quiet ==
    /\ UNCHANGED <<env, consul, serviceId, catalog, failed>>
    /\ \A j \in On : \/ phase'[j] = phase[j]
                     \/ phase'[j] = "killed"
                     \/ phase[j] \in Live /\ phase'[j] \in Live
                     \/ phase[j] = "off" /\ phase'[j] \in Live

LEMMA QuietSteps ==
  ASSUME AppTypeOK, NEW i \in On,
         Load(i) \/ Notify(i) \/ StartRouter(i) \/ Signal(i) \/ Wake(i) \/ Lookup(i) \/ Crash(i)
  PROVE  Quiet
<1> USE DEF Quiet, Live, AppTypeOK
<1>1. CASE Load(i)
  BY <1>1 DEF Load
<1>2. CASE Notify(i)
  BY <1>2 DEF Notify
<1>3. CASE StartRouter(i)
  BY <1>3 DEF StartRouter
<1>4. CASE Signal(i)
  BY <1>4 DEF Signal
<1>5. CASE Wake(i)
  BY <1>5 DEF Wake
<1>6. CASE Lookup(i)
  BY <1>6 DEF Lookup
<1>7. CASE Crash(i)
  BY <1>7 DEF Crash
<1> QED  BY <1>1, <1>2, <1>3, <1>4, <1>5, <1>6, <1>7

LEMMA QuietKeeps ==
  ASSUME AppTypeOK, Listed, Identified, \A i \in On : Follows(i), Quiet
  PROVE  Listed' /\ Identified' /\ (\A i \in On : Follows(i))'
<1>1. On' = On
  BY DEF Quiet, On
<1>2. Listed'
  BY <1>1 DEF Quiet, Listed
<1>3. Identified'
  BY <1>1 DEF Quiet, Identified, Live
<1>4. ASSUME NEW i \in On PROVE Follows(i)'
  BY <1>1, <1>4 DEF Quiet, Follows, Alone, Identified, Live
<1> QED  BY <1>1, <1>2, <1>3, <1>4

(* An instance that registers becomes the one its identifier leads to, or has    *)
(* seen a call fail; the others under that identifier are no longer alone.      *)
LEMMA RegistrationKeeps ==
  ASSUME AppTypeOK, Listed, Identified, \A i \in On : Follows(i), UNCHANGED env,
         NEW i \in On, NEW name \in Names, NEW ok \in BOOLEAN, Registration(i, name, ok),
         phase[i] = "ready",
         phase' = phase \/ (\E q \in {"registered", "killed"} : phase' = [phase EXCEPT ![i] = q])
  PROVE  Listed' /\ Identified' /\ (\A j \in On : Follows(j))'
<1> DEFINE id == ServiceIdOf(i, name)
<1>1. On' = On /\ id \in Identifiers /\ i # None
  BY IdTyped, NameTyped, Constants DEF On
<1>2. /\ ~consul[i] /\ serviceId'[i] = id /\ consul'[i] \in BOOLEAN
      /\ \A j \in On \ {i} : /\ serviceId'[j] = serviceId[j] /\ consul'[j] = consul[j]
                             /\ failed'[j] = failed[j]
      /\ \/ consul'[i] /\ catalog' = [catalog EXCEPT ![id] = i]
         \/ catalog' = catalog /\ (consul'[i] => failed'[i])
  BY RegistrationEffect DEF AppTypeOK
<1> HIDE DEF id
<1>3. \A j \in On : /\ phase'[j] = phase[j] \/ (j = i /\ phase'[j] \in {"registered", "killed"})
                    /\ phase'[i] # "off" /\ phase'[i] # "done"
  BY DEF AppTypeOK
<1>4. Listed'
  <2> SUFFICES ASSUME NEW s \in Identifiers, catalog'[s] # None
               PROVE  /\ catalog'[s] \in On /\ consul'[catalog'[s]]
                      /\ serviceId'[catalog'[s]] = s
    BY <1>1 DEF Listed
  <2>1. CASE catalog'[s] = catalog[s]
    <3>1. catalog[s] \in On /\ consul[catalog[s]] /\ serviceId[catalog[s]] = s
      BY <2>1 DEF Listed
    <3>2. catalog[s] # i
      BY <3>1, <1>2
    <3> QED  BY <2>1, <3>1, <3>2, <1>2
  <2>2. CASE s = id /\ catalog'[s] = i /\ consul'[i]
    BY <2>2, <1>1, <1>2
  <2> QED  BY <2>1, <2>2, <1>2 DEF AppTypeOK
<1>5. Identified'
  BY <1>1, <1>2, <1>3 DEF Identified
<1>6. ASSUME NEW j \in On, consul'[j], ~failed'[j], Alone(j)'
      PROVE  /\ phase'[j] \in Live => catalog'[serviceId'[j]] = j
             /\ phase'[j] = "done" => catalog'[serviceId'[j]] # j
  <2>1. CASE j = i
    BY <2>1, <1>1, <1>2, <1>3, <1>6 DEF AppTypeOK
  <2>2. CASE j # i
    <3>1. consul[j] /\ ~failed[j] /\ Alone(j)
      BY <2>2, <1>1, <1>2, <1>6 DEF Alone
    <3>2. /\ phase[j] \in Live => catalog[serviceId[j]] = j
          /\ phase[j] = "done" => catalog[serviceId[j]] # j
      BY <3>1 DEF Follows
    <3>3. catalog'[serviceId[j]] = catalog[serviceId[j]]
      <4>1. CASE catalog' = catalog
        BY <4>1
      <4>2. CASE consul'[i] /\ catalog' = [catalog EXCEPT ![id] = i]
        <5>1. serviceId[j] # id
          BY <4>2, <2>2, <1>1, <1>2, <1>6 DEF Alone
        <5> QED  BY <4>2, <5>1, <3>1 DEF Identified, AppTypeOK
      <4> QED  BY <4>1, <4>2, <1>2
    <3> QED  BY <2>2, <3>2, <3>3, <1>2, <1>3
  <2> QED  BY <2>1, <2>2
<1>7. (\A j \in On : Follows(j))'
  BY <1>1, <1>6 DEF Follows
<1> QED  BY <1>4, <1>5, <1>7

(* An instance that stops takes away no entry but its identifier's.             *)
LEMMA DeregisterKeeps ==
  ASSUME AppTypeOK, Listed, Identified, \A i \in On : Follows(i), NEW i \in On, Deregister(i)
  PROVE  Listed' /\ Identified' /\ (\A j \in On : Follows(j))'
<1>1. /\ On' = On /\ phase[i] = "shutdown" /\ phase'[i] = "done" /\ i # None
      /\ \A j \in On \ {i} : phase'[j] = phase[j] /\ failed'[j] = failed[j]
      /\ UNCHANGED <<consul, serviceId>>
  BY Constants DEF Deregister, AppTypeOK, On
<1>2. \/ consul[i] /\ catalog' = [catalog EXCEPT ![serviceId[i]] = None]
      \/ consul[i] /\ catalog' = catalog /\ failed'[i]
      \/ ~consul[i] /\ catalog' = catalog /\ failed' = failed
  BY DEF Deregister, AppTypeOK
<1>3. ~failed'[i] => ~failed[i]
  BY DEF Deregister, AppTypeOK
<1>4. Listed'
  BY <1>1, <1>2 DEF Listed, AppTypeOK
<1>5. Identified'
  BY <1>1 DEF Identified
<1>6. ASSUME NEW j \in On, consul[j], ~failed'[j], Alone(j)
      PROVE  /\ phase'[j] \in Live => catalog'[serviceId[j]] = j
             /\ phase'[j] = "done" => catalog'[serviceId[j]] # j
  <2>1. CASE j = i
    BY <2>1, <1>1, <1>2, <1>6 DEF Live, Identified, AppTypeOK
  <2>2. CASE j # i
    <3>1. /\ phase[j] \in Live => catalog[serviceId[j]] = j
          /\ phase[j] = "done" => catalog[serviceId[j]] # j
      BY <2>2, <1>1, <1>6 DEF Follows
    <3>2. consul[i] => serviceId[i] # serviceId[j]
      BY <2>2, <1>6 DEF Alone
    <3>3. catalog'[serviceId[j]] = catalog[serviceId[j]]
      BY <3>2, <1>2, <1>6 DEF Identified, AppTypeOK
    <3> QED  BY <2>2, <3>1, <3>3, <1>1
  <2> QED  BY <2>1, <2>2
<1>7. (\A j \in On : Follows(j))'
  BY <1>1, <1>6 DEF Follows, Alone
<1> QED  BY <1>4, <1>5, <1>7

LEMMA AppStepKeeps ==
  ASSUME AppTypeOK, Listed, Identified, \A i \in On : Follows(i), NEW i \in On,
         Steps(i) \/ Others(i)
  PROVE  Listed' /\ Identified' /\ (\A j \in On : Follows(j))'
<1>1. CASE Load(i) \/ Notify(i) \/ StartRouter(i) \/ Signal(i) \/ Wake(i) \/ Lookup(i) \/ Crash(i)
  BY <1>1, QuietSteps, QuietKeeps
<1>2. CASE Register(i)
  <2>1. PICK name \in Names, ok \in BOOLEAN : Registration(i, name, ok)
    BY <1>2 DEF Register
  <2>2. phase[i] = "ready" /\ phase' = phase /\ UNCHANGED env
    BY <1>2 DEF Register
  <2> QED  BY <2>1, <2>2, RegistrationKeeps
<1>3. CASE RunRegisters(i)
  <2>1. phase[i] = "ready" /\ UNCHANGED env
    BY <1>3 DEF RunRegisters
  <2>2. CASE Goes(i, "registered") /\ UNCHANGED <<consul, serviceId, catalog, failed>>
    <3>1. Quiet
      BY <2>1, <2>2 DEF Quiet, Live, AppTypeOK
    <3> QED  BY <3>1, QuietKeeps
  <2>3. CASE \E ok \in BOOLEAN :
               Registration(i, env[i].name, ok) /\ Goes(i, IF ok THEN "registered" ELSE "killed")
    <3>1. PICK ok \in BOOLEAN : Registration(i, env[i].name, ok)
                                /\ Goes(i, IF ok THEN "registered" ELSE "killed")
      BY <2>3
    <3>2. \E q \in {"registered", "killed"} : phase' = [phase EXCEPT ![i] = q]
      BY <3>1
    <3>3. env[i].name \in Names
      BY NameTyped
    <3> QED  BY <2>1, <3>1, <3>2, <3>3, RegistrationKeeps
  <2> QED  BY <1>3, <2>2, <2>3 DEF RunRegisters
<1>4. CASE Deregister(i)
  BY <1>4, DeregisterKeeps
<1> QED  BY <1>1, <1>2, <1>3, <1>4 DEF Steps, Others

(* However the instances' registrations and ends interleave, and however many      *)
(* there are, one that shares its identifier with no other is listed while it     *)
(* runs and not when it has stopped, unless a call of the agent failed.         *)
THEOREM CatalogFollowsRunHolds == Spec => []CatalogFollowsRun
<1>1. Init => IInv
  BY Constants DEF Init, IInv, TypeOK, AppInit, AppTypeOK, TasksInit, TasksTypeOK, Listed,
     Identified, Follows, On
<1>2. ASSUME IInv, [Next]_vars PROVE IInv'
  <2>1. TypeOK'
    BY <1>2, TypeOKStep DEF IInv
  <2>2. CASE \E i \in On : (Steps(i) \/ Others(i)) /\ UNCHANGED tasks
    BY <1>2, <2>1, <2>2, AppStepKeeps DEF IInv, TypeOK
  <2>3. CASE TaskStep /\ UNCHANGED app
    BY <1>2, <2>1, <2>3 DEF IInv, app, Listed, Identified, Follows, Alone, On
  <2>4. CASE UNCHANGED vars
    BY <1>2, <2>1, <2>4 DEF IInv, vars, app, Listed, Identified, Follows, Alone, On
  <2> QED  BY <1>2, <2>2, <2>3, <2>4, NextSplits
<1>3. IInv => CatalogFollowsRun
  BY DEF IInv, Listed, Follows, Alone, Live, CatalogFollowsRun
<1> QED  BY <1>1, <1>2, <1>3, PTL DEF Spec
=============================================================================
