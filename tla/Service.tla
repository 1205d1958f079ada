------------------------------ MODULE Service -------------------------------
(***************************************************************************)
(* The processes of a service: App, and in one of them the tasks of its       *)
(* program, which are given the application's context and end with it.        *)
(***************************************************************************)
EXTENDS App, Tasks

CONSTANT Busy   \* the instance whose program has tasks

vars == <<app, tasks>>

TypeOK == AppTypeOK /\ TasksTypeOK

Init == AppInit /\ TasksInit

Steps(i) == Notify(i) \/ StartRouter(i) \/ Wake(i) \/ Deregister(i)

Others(i) == Load(i) \/ Register(i) \/ RunRegisters(i) \/ Signal(i) \/ Lookup(i) \/ Crash(i)

InProcess(A) == Busy \in On /\ Alive(Busy) /\ A /\ UNCHANGED app

CtxDone == ctx[Busy] = "done"

RetryGoesOn(r)   == InProcess(Try(r) \/ Sleep(r))
TimeoutGoesOn(t) == InProcess(Select(t) \/ FnReturns(t))
TimerGoesOn(t)   == InProcess(TimeIsUp(t))
WriteGoesOn(w)   == InProcess(BeginWrite(w, CtxDone))
ReaderGoesOn     == InProcess(Read)

Next ==
    \/ \E i \in On : (Steps(i) \/ Others(i)) /\ UNCHANGED tasks
    \/ InProcess(TasksStart)
    \/ InProcess(ReaderStops(CtxDone))
    \/ \E r \in Retries : RetryGoesOn(r)
    \/ \E t \in Timeouts : TimeoutGoesOn(t) \/ TimerGoesOn(t)
    \/ \E w \in Writes : WriteGoesOn(w)
    \/ ReaderGoesOn

Spec == Init /\ [][Next]_vars

(* The scheduler runs what can run; the agent answers or fails; time passes; fn  *)
(* returns; and the reader reads.  A program need not call Run, and nobody need   *)
(* send a signal.                                                           *)
FairSpec ==
    /\ Spec
    /\ \A i \in Instances : WF_vars(i \in On /\ Steps(i) /\ UNCHANGED tasks)
    /\ \A r \in Retries : WF_vars(RetryGoesOn(r))
    /\ \A t \in Timeouts : WF_vars(TimeoutGoesOn(t)) /\ WF_vars(TimerGoesOn(t))
    /\ \A w \in Writes : WF_vars(WriteGoesOn(w))
    /\ WF_vars(ReaderGoesOn)
-----------------------------------------------------------------------------
(* Register, Run: what the agent lists is an instance under the identifier it     *)
(* would deregister.  An instance that shares its identifier with no other, and   *)
(* whose calls of the agent succeed, is listed from its registration until it     *)
(* stops, and is off the list when it has.                                  *)
CatalogFollowsRun ==
    /\ \A s \in Identifiers : catalog[s] # None => serviceId[catalog[s]] = s
    /\ \A i \in On : consul[i] /\ ~failed[i] /\ (\A j \in On \ {i} : serviceId[j] # serviceId[i]) =>
          /\ phase[i] \in {"ready", "registered", "notified", "waiting", "shutdown"} =>
               catalog[serviceId[i]] = i
          /\ phase[i] = "done" => catalog[serviceId[i]] # i

(* Run: a signal after Notify ends the process, also one that comes before Run     *)
(* waits for it.                                                            *)
SignalEnds ==
    []<>(\A i \in On : signals[i] > 0 => phase[i] \notin {"notified", "waiting", "shutdown"})

(* WithRetry, WithTimeout, SafeChannelWrite: whatever is started ends, or its      *)
(* process does, even if fn never succeeds and the context ends meanwhile.      *)
TasksSettle == []<>(Settled \/ Busy \notin On \/ ~Alive(Busy))
=============================================================================
