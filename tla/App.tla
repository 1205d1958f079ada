-------------------------------- MODULE App ---------------------------------
(***************************************************************************)
(* app/app.go: the life of a service's process.  Init builds the application   *)
(* from its environment, Register lists it with the agent of consul, Run does  *)
(* so too, waits for a signal, and takes it off the list.  Instances of one    *)
(* service run beside each other and share the agent's list.                *)
(*                                                                         *)
(* External: consul's agent, whose list has one entry for an identifier, the  *)
(* last one written; and the operating system, which sends signals, kills, and *)
(* ends every goroutine with its process.                                   *)
(***************************************************************************)
EXTENDS Integers

CONSTANTS
    Instances,
    Identifiers,  \* texts: names of services among them
    Names,        \* names of services
    Hosts,        \* hosts, each with the version of the program
    AutoId,       \* AutoId[name][host]: name-host-version, a text like any other
    Setups,       \* environments of the instances
    MaxSignals,   \* bound: signals an instance is sent
    None

(* CONSUL_HTTP_ADDR is set, SERVICE_ID and SERVICE_ID_AUTO, SERVICE_NAME (or     *)
(* APP_NAME, or the host's), and the host with the version.                 *)
Environment ==
    [consul : BOOLEAN, id : Identifiers \cup {None}, auto : BOOLEAN, name : Names, host : Hosts]

ASSUME AppAssumption ==
    /\ Setups \subseteq UNION {[on -> Environment] : on \in SUBSET Instances}
    /\ MaxSignals \in Nat
    /\ Names \subseteq Identifiers /\ AutoId \in [Names -> [Hosts -> Identifiers]]
    /\ None \notin Identifiers \cup Instances

VARIABLES
    env,         \* the environment of each instance that is run
    phase,       \* where its main function is
    consul,      \* a.consul is set
    serviceId,   \* a.serviceId
    catalog,     \* the agent's list: which instance an identifier leads to
    serving,     \* the router has its port
    osc,         \* signals in a.osc, which holds one
    ctx,         \* a.ctx: live or done
    url,         \* what ServiceUrl answered last
    signals,     \* signals sent (history)
    failed       \* a call of the agent failed (history)

app == <<env, phase, consul, serviceId, catalog, serving, osc, ctx, url, signals, failed>>

Phases == {"off", "ready", "registered", "notified", "waiting", "shutdown",
           "done", "killed"}

On == DOMAIN env

AppTypeOK ==
    /\ env \in Setups
    /\ phase \in [On -> Phases]
    /\ consul \in [On -> BOOLEAN]
    /\ serviceId \in [On -> Identifiers \cup {None}]
    /\ catalog \in [Identifiers -> Instances \cup {None}]
    /\ serving \in [On -> BOOLEAN]
    /\ osc \in [On -> 0 .. 1]
    /\ ctx \in [On -> {"live", "done"}]
    /\ url \in [On -> Instances \cup {None}]
    /\ signals \in [On -> 0 .. MaxSignals]
    /\ failed \in [On -> BOOLEAN]

AppInit ==
    /\ env \in Setups
    /\ phase = [i \in On |-> "off"]
    /\ consul = [i \in On |-> FALSE]
    /\ serviceId = [i \in On |-> None]
    /\ catalog = [s \in Identifiers |-> None]
    /\ serving = [i \in On |-> FALSE]
    /\ osc = [i \in On |-> 0]
    /\ ctx = [i \in On |-> "live"]
    /\ url = [i \in On |-> None]
    /\ signals = [i \in On |-> 0]
    /\ failed = [i \in On |-> FALSE]
-----------------------------------------------------------------------------
Goes(i, p) == phase' = [phase EXCEPT ![i] = p]

Alive(i) == phase[i] \notin {"off", "done", "killed"}

(* Init: it ends the process when it is strict and there are no env files, or   *)
(* when the log cannot be configured.                                       *)
Load(i) ==
    /\ phase[i] = "off"
    /\ Goes(i, "ready") \/ Goes(i, "killed")
    /\ UNCHANGED <<env, consul, serviceId, catalog, serving, osc, ctx, url, signals, failed>>

ServiceIdOf(i, name) ==
    CASE env[i].id # None                -> env[i].id
      [] env[i].id = None /\ env[i].auto -> AutoId[name][env[i].host]
      [] OTHER                           -> name

(* Register returns at once: the client is there already, or no address is.    *)
Skips(i) == consul[i] \/ ~env[i].consul

(* The call of the agent.  It may fail before or after the service is listed.   *)
Lists(i, id, ok) ==
    /\ catalog' = [catalog EXCEPT ![id] = i] \/ (~ok /\ UNCHANGED catalog)
    /\ failed' = [failed EXCEPT ![i] = @ \/ ~ok]

(* Register from there: NewClient may fail, and then there is no client.       *)
Registration(i, name, ok) ==
    LET id == ServiceIdOf(i, name)
    IN  /\ ~Skips(i)
        /\ serviceId' = [serviceId EXCEPT ![i] = id]
        /\ \/ consul' = [consul EXCEPT ![i] = TRUE] /\ Lists(i, id, ok)
           \/ ~ok /\ UNCHANGED <<consul, catalog, failed>>

(* Register, called by the program with a name or without.  It ignores errors.  *)
Register(i) ==
    /\ phase[i] = "ready"
    /\ \E name \in Names, ok \in BOOLEAN : Registration(i, name, ok)
    /\ UNCHANGED <<env, phase, serving, osc, ctx, url, signals>>

(* Run: Register, whose error is fatal.                                      *)
RunRegisters(i) ==
    /\ phase[i] = "ready"
    /\ \/ /\ Skips(i)
          /\ Goes(i, "registered")
          /\ UNCHANGED <<consul, serviceId, catalog, failed>>
       \/ \E ok \in BOOLEAN :
             /\ Registration(i, env[i].name, ok)
             /\ Goes(i, IF ok THEN "registered" ELSE "killed")
    /\ UNCHANGED <<env, serving, osc, ctx, url, signals>>

Notify(i) ==
    /\ phase[i] = "registered"
    /\ Goes(i, "notified")
    /\ UNCHANGED <<env, consul, serviceId, catalog, serving, osc, ctx, url, signals, failed>>

(* go a.router.Run: an instance whose port is taken, or fails otherwise, goes    *)
(* on without it.                                                           *)
StartRouter(i) ==
    /\ phase[i] = "notified"
    /\ \E s \in BOOLEAN : serving' = [serving EXCEPT ![i] = s]
    /\ Goes(i, "waiting")
    /\ UNCHANGED <<env, consul, serviceId, catalog, osc, ctx, url, signals, failed>>

(* Slip: a.osc has no room, and takes a signal only while Run waits for it.    *)
SignalUnbuffered(i) ==
    /\ Alive(i) /\ signals[i] < MaxSignals
    /\ signals' = [signals EXCEPT ![i] = @ + 1]
    /\ \/ /\ phase[i] \in {"ready", "registered"}
          /\ Goes(i, "killed") /\ UNCHANGED osc
       \/ /\ phase[i] \in {"notified", "waiting", "shutdown"}
          /\ osc' = [osc EXCEPT ![i] = IF phase[i] = "waiting" THEN 1 ELSE @]
          /\ UNCHANGED phase
    /\ UNCHANGED <<env, consul, serviceId, catalog, serving, ctx, url, failed>>

(* SIGINT or SIGTERM: before Notify the process is killed by it; after, a.osc    *)
(* takes it if it has room.                                                 *)
Signal(i) ==
    /\ Alive(i) /\ signals[i] < MaxSignals
    /\ signals' = [signals EXCEPT ![i] = @ + 1]
    /\ \/ /\ phase[i] \in {"ready", "registered"}
          /\ Goes(i, "killed") /\ UNCHANGED osc
       \/ /\ phase[i] \in {"notified", "waiting", "shutdown"}
          /\ osc' = [osc EXCEPT ![i] = 1]
          /\ UNCHANGED phase
    /\ UNCHANGED <<env, consul, serviceId, catalog, serving, ctx, url, failed>>

(* <-a.osc; a.cancel().                                                      *)
Wake(i) ==
    /\ phase[i] = "waiting" /\ osc[i] = 1
    /\ osc' = [osc EXCEPT ![i] = 0]
    /\ ctx' = [ctx EXCEPT ![i] = "done"]
    /\ Goes(i, "shutdown")
    /\ UNCHANGED <<env, consul, serviceId, catalog, serving, url, signals, failed>>

(* Slip: what is taken off the list is the name of the environment.           *)
DeregisterName(i) ==
    /\ phase[i] = "shutdown"
    /\ catalog' = [catalog EXCEPT ![env[i].name] = None]
    /\ Goes(i, "done")
    /\ serving' = [serving EXCEPT ![i] = FALSE]
    /\ UNCHANGED <<env, consul, serviceId, osc, ctx, url, signals, failed>>

(* Whatever the identifier leads to is off the list.  The error of             *)
(* ServiceDeregister is dropped.                                            *)
Deregister(i) ==
    /\ phase[i] = "shutdown"
    /\ \/ /\ consul[i] /\ serviceId[i] # None
          /\ \E ok \in BOOLEAN :
                /\ \/ catalog' = [catalog EXCEPT ![serviceId[i]] = None]
                   \/ ~ok /\ UNCHANGED catalog
                /\ failed' = [failed EXCEPT ![i] = @ \/ ~ok]
       \/ ~consul[i] /\ UNCHANGED <<catalog, failed>>
    /\ Goes(i, "done")
    /\ serving' = [serving EXCEPT ![i] = FALSE]
    /\ UNCHANGED <<env, consul, serviceId, osc, ctx, url, signals>>

(* ServiceUrl: Service looks for the name among the identifiers.              *)
Lookup(i) ==
    /\ phase[i] = "waiting" /\ consul[i]
    /\ \E name \in Identifiers, ok \in BOOLEAN :
         url' = [url EXCEPT ![i] = IF ok THEN catalog[name] ELSE None]
    /\ UNCHANGED <<env, phase, consul, serviceId, catalog, serving, osc, ctx, signals, failed>>

Crash(i) ==
    /\ Alive(i)
    /\ Goes(i, "killed")
    /\ serving' = [serving EXCEPT ![i] = FALSE]
    /\ UNCHANGED <<env, consul, serviceId, catalog, osc, ctx, url, signals, failed>>
=============================================================================
