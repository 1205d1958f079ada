------------------------------- MODULE Tasks --------------------------------
(***************************************************************************)
(* utils/tasks.go and utils/timer.go: WithRetry, WithTimeout and               *)
(* SafeChannelWrite, as goroutines of a process.  The function they are given   *)
(* answers or fails each time it is called, as it likes.                      *)
(*                                                                         *)
(* External: the reader of the channel of SafeChannelWrite, which reads until   *)
(* it sees that the context is done; the channel has no buffer.               *)
(***************************************************************************)
EXTENDS Integers

CONSTANTS
    Retries,    \* calls of WithRetry
    Timeouts,   \* calls of WithTimeout
    Writes,     \* calls of SafeChannelWrite
    NilWrites,  \* those with a nil channel
    Tries       \* the retries each WithRetry is given

ASSUME TasksAssumption == NilWrites \subseteq Writes /\ Tries \in Int

VARIABLES
    retry,     \* where each WithRetry is
    tries,     \* the retries it has left
    calls,     \* times its function was called (history)
    timeout,   \* where each WithTimeout is
    timer,     \* its timer
    write,     \* where the goroutine of each SafeChannelWrite is
    reading    \* the reader goes on

tasks == <<retry, tries, calls, timeout, timer, write, reading>>

TasksTypeOK ==
    /\ retry \in [Retries -> {"idle", "trying", "asleep", "ok", "error"}]
    /\ tries \in [Retries -> Int]
    /\ calls \in [Retries -> Nat]
    /\ timeout \in [Timeouts -> {"idle", "select", "fn", "true", "false"}]
    /\ timer \in [Timeouts -> {"off", "counting", "sending", "gone"}]
    /\ write \in [Writes -> {"idle", "begun", "sending", "delivered", "dropped", "nil"}]
    /\ reading \in BOOLEAN

TasksInit ==
    /\ retry = [r \in Retries |-> "idle"]
    /\ tries = [r \in Retries |-> Tries]
    /\ calls = [r \in Retries |-> 0]
    /\ timeout = [t \in Timeouts |-> "idle"]
    /\ timer = [t \in Timeouts |-> "off"]
    /\ write = [w \in Writes |-> "idle"]
    /\ reading = TRUE
-----------------------------------------------------------------------------
StartRetry(r) ==
    /\ retry[r] = "idle"
    /\ retry' = [retry EXCEPT ![r] = "trying"]
    /\ UNCHANGED <<tries, calls, timeout, timer, write, reading>>

(* fn, and what WithRetry makes of its error: the last one is returned when no   *)
(* retry is left.                                                           *)
Try(r) ==
    /\ retry[r] = "trying"
    /\ calls' = [calls EXCEPT ![r] = @ + 1]
    /\ \/ retry' = [retry EXCEPT ![r] = "ok"] /\ UNCHANGED tries
       \/ /\ tries[r] <= 0
          /\ retry' = [retry EXCEPT ![r] = "error"]
          /\ UNCHANGED tries
       \/ /\ tries[r] > 0
          /\ tries' = [tries EXCEPT ![r] = @ - 1]
          /\ retry' = [retry EXCEPT ![r] = "asleep"]
    /\ UNCHANGED <<timeout, timer, write, reading>>

Sleep(r) ==
    /\ retry[r] = "asleep"
    /\ retry' = [retry EXCEPT ![r] = "trying"]
    /\ UNCHANGED <<tries, calls, timeout, timer, write, reading>>
-----------------------------------------------------------------------------
(* Timer().After: a goroutine waits for the duration.                        *)
StartTimeout(t) ==
    /\ timeout[t] = "idle"
    /\ timeout' = [timeout EXCEPT ![t] = "select"]
    /\ timer' = [timer EXCEPT ![t] = "counting"]
    /\ UNCHANGED <<retry, tries, calls, write, reading>>

(* Slip: wait does not wait for somebody to take what it sends.               *)
TimeIsUpUnheard(t) ==
    /\ timer[t] = "counting"
    /\ timer' = [timer EXCEPT ![t] = "gone"]
    /\ timeout' = [timeout EXCEPT ![t] = IF @ = "select" THEN "false" ELSE @]
    /\ UNCHANGED <<retry, tries, calls, write, reading>>

(* T.wait: it sends on a channel without a buffer, and blocks there for ever if  *)
(* WithTimeout has returned.                                                *)
TimeIsUp(t) ==
    /\ timer[t] = "counting"
    /\ timer' = [timer EXCEPT ![t] = "sending"]
    /\ UNCHANGED <<retry, tries, calls, timeout, write, reading>>

(* The select of WithTimeout, whose default calls fn.                        *)
Select(t) ==
    /\ timeout[t] = "select"
    /\ \/ /\ timer[t] = "sending"
          /\ timer' = [timer EXCEPT ![t] = "gone"]
          /\ timeout' = [timeout EXCEPT ![t] = "false"]
       \/ /\ timer[t] # "sending"
          /\ timeout' = [timeout EXCEPT ![t] = "fn"]
          /\ UNCHANGED timer
    /\ UNCHANGED <<retry, tries, calls, write, reading>>

FnReturns(t) ==
    /\ timeout[t] = "fn"
    /\ \E p \in {"true", "select"} : timeout' = [timeout EXCEPT ![t] = p]
    /\ UNCHANGED <<retry, tries, calls, timer, write, reading>>
-----------------------------------------------------------------------------
StartWrite(w) ==
    /\ write[w] = "idle"
    /\ write' = [write EXCEPT ![w] = "begun"]
    /\ UNCHANGED <<retry, tries, calls, timeout, timer, reading>>

(* The goroutine of SafeChannelWrite looks at the context once.               *)
BeginWrite(w, done) ==
    /\ write[w] = "begun"
    /\ write' = [write EXCEPT ![w] = IF done THEN "dropped"
                                     ELSE IF w \in NilWrites THEN "nil" ELSE "sending"]
    /\ UNCHANGED <<retry, tries, calls, timeout, timer, reading>>

(* Any of the goroutines that send may be the one it reads from.              *)
Read ==
    /\ reading
    /\ \E w \in Writes : write[w] = "sending" /\ write' = [write EXCEPT ![w] = "delivered"]
    /\ UNCHANGED <<retry, tries, calls, timeout, timer, reading>>

ReaderStops(done) ==
    /\ reading /\ done
    /\ reading' = FALSE
    /\ UNCHANGED <<retry, tries, calls, timeout, timer, write>>
-----------------------------------------------------------------------------
TasksStart ==
    \/ \E r \in Retries : StartRetry(r)
    \/ \E t \in Timeouts : StartTimeout(t)
    \/ \E w \in Writes : StartWrite(w)

Settled ==
    /\ \A r \in Retries : retry[r] \in {"idle", "ok", "error"}
    /\ \A t \in Timeouts : timeout[t] \in {"idle", "true", "false"}
    /\ \A w \in Writes : write[w] \in {"idle", "delivered", "dropped", "nil"}
=============================================================================
