------------------------------- MODULE Client -------------------------------
(***************************************************************************)
(* http/client.go: the client of a service.  A client object keeps what it   *)
(* was given, and the headers it added itself, from one request to the next.  *)
(* Request sends and waits, for a minute at most, and getResponse makes a     *)
(* Response of whatever came.                                               *)
(*                                                                         *)
(* An object serves one call at a time: it has no lock, and the calls in      *)
(* Direct share one object.  Each call in Proxied makes an object of its own, *)
(* as GenericHandler does.                                                  *)
(***************************************************************************)
EXTENDS Api

CONSTANTS
    Direct,   \* calls made with one client that is kept
    Proxied   \* calls made through a GenericHandler

VARIABLES
    object,    \* the client object each call uses
    pc,        \* where each call is
    reply      \* the Response that Request returned

Points == {"idle", "load", "loaded", "param", "ready", "waiting", "replied",
           "errorLeft", "dataLeft", "assigned", "failing", "parsing", "parsed", "done"}

(* Response.Data when it is a T with nothing in it.                          *)
Zero == "zero"
Data == Calls \cup {Zero, None}

ASSUME ClientAssumption ==
    /\ Zero \notin Calls \cup {None}
    /\ Calls = Direct \cup Proxied /\ Direct \cap Proxied = {}

Response == [error : BOOLEAN, success : BOOLEAN, data : Data]

(* headers, params, session and body of a client.                           *)
Object ==
    [ids : SUBSET Calls, auth : SUBSET (Tokens \cup {Basic}), params : Params,
     session : BOOLEAN, body : Calls \cup {Blank, None}]

ClientTypeOK ==
    /\ object \in [Calls -> Object]
    /\ pc \in [Calls -> Points]
    /\ reply \in [Calls -> Response \cup {None}]

NewClient == [ids |-> {}, auth |-> {}, params |-> Unset, session |-> FALSE, body |-> None]

ClientInit ==
    /\ object = [c \in Calls |-> NewClient]
    /\ pc = [c \in Calls |-> "idle"]
    /\ reply = [c \in Calls |-> None]
-----------------------------------------------------------------------------
(* Slip: the objects share what they keep.                                  *)
SharersAll(c) == Calls

(* The calls that use the client object of c.                               *)
Sharers(c) == IF c \in Direct THEN Direct ELSE {c}

Keeps(c, o) == object' = [d \in Calls |-> IF d \in Sharers(c) THEN o ELSE object[d]]

(* Session, Body, Headers (WithBasicAuth) and Params, on what the object has:  *)
(* a value is added to those a header has, and to the end of a parameter's,    *)
(* of which the service takes the first.                                    *)
Configured(o, c, r) ==
    [o EXCEPT !.session = @ \/ r.scheme = "session",
              !.body = IF r.body = "none" THEN @ ELSE c,
              !.auth = IF r.scheme = "basic" THEN @ \cup {Basic} ELSE @,
              !.params = [f \in DOMAIN @ |->
                            CASE @[f] # None                        -> @[f]
                              [] f = "token" /\ r.scheme = "query" -> r.token
                              [] OTHER                              -> r.params[f]]]

(* A new id unless the caller's context has one, and the log middleware keeps    *)
(* its id under another name.                                               *)
WithRequestID(ids, c) == ids \cup {c}

(* The Authorization the client's session gives now.                         *)
WithAuthorization(o) == IF o.session THEN o.auth \cup {session} ELSE o.auth

(* setOverrides: both are put beside those earlier requests left there.       *)
SetOverrides(o, c) ==
    [o EXCEPT !.ids = WithRequestID(@, c), !.auth = WithAuthorization(o)]

Failure == [error |-> TRUE, success |-> FALSE, data |-> None]

Replies(c, r) ==
    /\ reply' = [reply EXCEPT ![c] = r]
    /\ pc' = [pc EXCEPT ![c] = "replied"]

(* The url does not parse: setOverrides is not reached.                      *)
BadUrl(c) ==
    /\ pc[c] = "ready"
    /\ request[c].url = "bad"
    /\ Replies(c, Failure)
    /\ UNCHANGED <<object, wire, service>>

(* The body cannot be encoded: the headers have grown.  body is whose         *)
(* parameter is encoded.                                                    *)
BadBody(c, body) ==
    /\ pc[c] = "ready"
    /\ request[c].url = "ok"
    /\ body \in Calls /\ request[body].body = "unencodable"
    /\ Keeps(c, SetOverrides(object[c], c))
    /\ Replies(c, Failure)
    /\ UNCHANGED <<wire, service>>

Send(c, body) ==
    LET o == SetOverrides(object[c], c)
    IN  /\ pc[c] = "ready"
        /\ request[c].url = "ok"
        /\ body \in Calls => request[body].body # "unencodable"
        /\ Keeps(c, o)
        /\ carried' = [carried EXCEPT ![c] = [ids |-> o.ids, auth |-> o.auth, params |-> o.params]]
        /\ sent' = [sent EXCEPT ![c] = body]
        /\ at' = [at EXCEPT ![c] = "wire"]
        /\ pc' = [pc EXCEPT ![c] = "waiting"]
        /\ UNCHANGED <<session, request, reply, logged, bodyRead, user, served, answer>>

RequestSteps(c, body) == BadUrl(c) \/ BadBody(c, body) \/ Send(c, body)

(* Slip: no timeout, only a service that is not reached.                     *)
DoFailsUnreached(c) ==
    /\ pc[c] = "waiting" /\ at[c] = "wire"
    /\ Replies(c, Failure)
    /\ UNCHANGED <<object, wire, service>>

(* Do fails: the context's deadline, or the connection.  The service may go   *)
(* on with the request.                                                     *)
DoFails(c) ==
    /\ pc[c] = "waiting"
    /\ Replies(c, Failure)
    /\ UNCHANGED <<object, wire, service>>
-----------------------------------------------------------------------------
(* Slip: whatever decodes to a Response is a success.                        *)
GetResponseLenient(a, list) ==
    CASE a.shape = "empty" -> [error |-> FALSE, success |-> FALSE, data |-> None]
      [] a.shape \in {"data", "bare"} ->
            [error |-> FALSE, success |-> TRUE, data |-> IF a.data = None THEN Zero ELSE a.data]
      [] a.shape \in {"wrapped", "text"} ->
            IF list THEN [error |-> FALSE, success |-> FALSE, data |-> None]
            ELSE [error |-> FALSE, success |-> TRUE, data |-> Zero]

(* getResponse, for a T that is a list or a structure.  An ErrorModel decodes *)
(* to a Response without data, a failure without an error (any list of errors   *)
(* it has is no data that such a T could be made of).  The error of a          *)
(* Response is an interface and does not decode, nor does that of a gin.Error; *)
(* such a body is then decoded to T itself: to a structure that succeeds, with *)
(* nothing in it, and to a list it does not.                                *)
GetResponse(a, list) ==
    CASE a.shape = "empty" -> [error |-> FALSE, success |-> FALSE, data |-> None]
      [] a.shape \in {"data", "bare"} ->
            [error |-> FALSE, success |-> a.status < 400, data |-> a.data]
      [] a.shape \in {"wrapped", "text"} ->
            IF list THEN [error |-> FALSE, success |-> FALSE, data |-> None]
            ELSE [error |-> FALSE, success |-> TRUE, data |-> Zero]

GetAnswer(c) ==
    /\ pc[c] = "waiting"
    /\ at[c] = "answered"
    /\ Replies(c, GetResponse(answer[c], request[c].route = "list"))
    /\ UNCHANGED <<object, wire, service>>

(* The session is renewed, and what it had before has expired.               *)
Renew ==
    /\ session < MaxTokens
    /\ session' = session + 1
    /\ UNCHANGED <<request, sent, carried, service, object, pc, reply>>
=============================================================================
