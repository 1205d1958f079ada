------------------------------ MODULE Gateway -------------------------------
(***************************************************************************)
(* http/handler.go: GenericHandler makes a routine that forwards the         *)
(* parameter of its context to another service.  err, res and param are       *)
(* variables of the closure, made once, so all calls of the routine read and   *)
(* write the same three.  Composed with Client, and with the chain of Api at    *)
(* the other end; direct calls are made with a client that is kept.          *)
(*                                                                         *)
(* res is assigned in two parts, in either order: what the code tells apart    *)
(* is its error and its data.  A value of an interface is not torn.          *)
(***************************************************************************)
EXTENDS Client

CONSTANTS
    Wishes,   \* what each call may ask for
    Plans     \* the sets of calls that are made

Target(r) == [route |-> r.route, guarded |-> r.guarded, url |-> r.url]

ASSUME GatewayAssumption ==
    /\ Wishes \in [Calls -> SUBSET Request]
    /\ Plans \subseteq SUBSET Calls

VARIABLES
    plan,         \* the calls that are made
    target,       \* method and url of the routine
    err,          \* err, as the call it is about
    resError,     \* res.Error, likewise
    resData,      \* res.Data
    param,        \* param: whose it is
    result,       \* what a call of the routine returns
    overlapped    \* it ran beside another one (history)

closure == <<err, resError, resData, param>>
fixed   == <<plan, target>>
outside == <<fixed, wire, service, object, reply>>
vars    == <<wire, service, object, pc, reply, fixed, closure, result, overlapped>>

Targets(calls) == {Target(r) : r \in UNION {Wishes[c] : c \in calls \cap Proxied}}

NoResult == [error |-> None, out |-> Zero]

TypeOK ==
    /\ ApiTypeOK /\ ClientTypeOK
    /\ plan \in Plans /\ target \in Targets(Calls) \cup {None}
    /\ err \in Calls \cup {None} /\ resError \in Calls \cup {None}
    /\ resData \in Data
    /\ param \in Calls \cup {Blank, None}
    /\ result \in [Calls -> [error : Calls \cup {None}, out : Calls \cup {Zero}]]
    /\ overlapped \in [Calls -> BOOLEAN]

Init ==
    /\ ApiInit /\ ClientInit
    /\ plan \in Plans
    /\ target \in IF plan \cap Proxied = {} THEN {None} ELSE Targets(plan)
    /\ err = None /\ resError = None /\ resData = None /\ param = None
    /\ result = [c \in Calls |-> NoResult]
    /\ overlapped = [c \in Calls |-> FALSE]
-----------------------------------------------------------------------------
Running(c) == pc[c] \notin {"idle", "done"}

Asks(c, r) == request' = [request EXCEPT ![c] = r]
Goes(c, point) == pc' = [pc EXCEPT ![c] = point]

(* A call with the kept client: it is configured, and Request follows.       *)
StartDirect(c) ==
    /\ c \in plan \cap Direct /\ pc[c] = "idle"
    /\ \A d \in Direct : ~Running(d)
    /\ \E r \in Wishes[c] : Asks(c, r) /\ Keeps(c, Configured(object[c], c, r))
    /\ Goes(c, "ready")
    /\ UNCHANGED <<session, sent, carried, service, reply, fixed, closure, result, overlapped>>

(* Overlap is noted for c and for those it finds running.                    *)
StartProxied(c) ==
    LET others == {d \in Proxied \ {c} : Running(d)}
    IN  /\ c \in plan \cap Proxied /\ pc[c] = "idle"
        /\ \E r \in Wishes[c] : Target(r) = target /\ Asks(c, r)
        /\ overlapped' = [d \in Calls |-> overlapped[d] \/ (others # {} /\ d \in others \cup {c})]
        /\ IF target.url = "none"
           THEN /\ Goes(c, "done")
                /\ result' = [result EXCEPT ![c].error = c]
           ELSE Goes(c, "load") /\ UNCHANGED result
        /\ UNCHANGED <<session, sent, carried, service, object, reply, fixed, closure>>

(* The context of c has a parameter.                                        *)
HasParam(c) == request[c].body # "none"

(* Slip: a parameter that is there is not loaded again.                      *)
LoadParamOnce(c) ==
    /\ pc[c] = "load"
    /\ param' = IF param = None /\ HasParam(c) THEN c ELSE param
    /\ err' = IF param' = None THEN c ELSE None
    /\ Goes(c, "loaded")
    /\ UNCHANGED <<outside, resError, resData, result, overlapped>>

(* ContextLoad: param and err are assigned.                                  *)
LoadParam(c) ==
    /\ pc[c] = "load"
    /\ param' = IF HasParam(c) THEN c ELSE None
    /\ err' = IF HasParam(c) THEN None ELSE c
    /\ Goes(c, "loaded")
    /\ UNCHANGED <<outside, resError, resData, result, overlapped>>

Returns(c, e, out) ==
    /\ result' = [result EXCEPT ![c] = [error |-> e, out |-> out]]
    /\ Goes(c, "done")
    /\ UNCHANGED <<outside, overlapped>>

TestLoad(c) ==
    /\ pc[c] = "loaded"
    /\ \/ /\ err # None
          /\ Returns(c, c, Zero)
          /\ UNCHANGED closure
       \/ /\ err = None
          /\ Goes(c, "param")
          /\ UNCHANGED <<outside, closure, result, overlapped>>

(* param is nil only when another call has put it there: it is loaded again.  *)
TestParam(c) ==
    /\ pc[c] = "param"
    /\ \/ /\ param # None
          /\ Goes(c, "ready")
          /\ UNCHANGED <<outside, closure, result, overlapped>>
       \/ /\ param = None /\ HasParam(c)
          /\ param' = c
          /\ Goes(c, "ready")
          /\ UNCHANGED <<outside, err, resError, resData, result, overlapped>>
       \/ /\ param = None /\ ~HasParam(c)
          /\ param' = Blank
          /\ Returns(c, c, Zero)
          /\ UNCHANGED <<err, resError, resData>>
-----------------------------------------------------------------------------
(* The body is &param: what param is when the request is encoded.            *)
BodyOf(c) ==
    IF c \in Direct THEN object[c].body
    ELSE IF param = None THEN Blank ELSE param

Requests(c) ==
    /\ RequestSteps(c, BodyOf(c)) \/ GetAnswer(c)
    /\ UNCHANGED <<fixed, closure, result, overlapped>>

GivesUp(c) ==
    /\ DoFails(c)
    /\ UNCHANGED <<fixed, closure, result, overlapped>>

ReturnDirect(c) ==
    /\ c \in Direct /\ pc[c] = "replied"
    /\ Goes(c, "done")
    /\ UNCHANGED <<outside, closure, result, overlapped>>

(* res = Request(...), one part and then the other.                          *)
AssignError(c) ==
    /\ c \in Proxied /\ pc[c] \in {"replied", "errorLeft"}
    /\ resError' = IF reply[c].error THEN c ELSE None
    /\ Goes(c, IF pc[c] = "replied" THEN "dataLeft" ELSE "assigned")
    /\ UNCHANGED <<outside, err, resData, param, result, overlapped>>

AssignData(c) ==
    /\ c \in Proxied /\ pc[c] \in {"replied", "dataLeft"}
    /\ resData' = reply[c].data
    /\ Goes(c, IF pc[c] = "replied" THEN "errorLeft" ELSE "assigned")
    /\ UNCHANGED <<outside, err, resError, param, result, overlapped>>

TestResponse(c) ==
    /\ pc[c] = "assigned"
    /\ Goes(c, IF resError # None THEN "failing" ELSE "parsing")
    /\ UNCHANGED <<outside, closure, result, overlapped>>

(* return out, res.Error: res.Error is read once more.                       *)
Failing(c) ==
    /\ pc[c] = "failing"
    /\ Returns(c, resError, Zero)
    /\ UNCHANGED closure

(* Slip: no data is what the call returns.                                  *)
ParseUnchecked(c) ==
    /\ pc[c] = "parsing"
    /\ err' = None
    /\ result' = [result EXCEPT ![c].out = resData]
    /\ Goes(c, "parsed")
    /\ UNCHANGED <<outside, resError, resData, param, overlapped>>

(* ParseDataTo: no data is an error.                                        *)
Parse(c) ==
    /\ pc[c] = "parsing"
    /\ err' = IF resData = None THEN c ELSE None
    /\ result' = [result EXCEPT ![c].out = IF resData = None THEN Zero ELSE resData]
    /\ Goes(c, "parsed")
    /\ UNCHANGED <<outside, resError, resData, param, overlapped>>

TestParse(c) ==
    /\ pc[c] = "parsed"
    /\ Returns(c, err, result[c].out)
    /\ UNCHANGED closure

Routine(c) ==
    \/ LoadParam(c) \/ TestLoad(c) \/ TestParam(c)
    \/ AssignError(c) \/ AssignData(c) \/ TestResponse(c)
    \/ Failing(c) \/ Parse(c) \/ TestParse(c)

ServiceSteps(c) ==
    /\ Serve(c)
    /\ UNCHANGED <<object, pc, reply, fixed, closure, result, overlapped>>

Renews == Renew /\ UNCHANGED <<fixed, closure, result, overlapped>>

Starts(c)   == StartDirect(c) \/ StartProxied(c)
Proceeds(c) == Requests(c) \/ GivesUp(c) \/ ReturnDirect(c) \/ Routine(c)

Next == Renews \/ \E c \in Calls : Starts(c) \/ Proceeds(c) \/ ServiceSteps(c)

Spec == Init /\ [][Next]_vars

(* A call goes on when it can, and Do ends at the latest with its timeout.    *)
(* The service may never answer.                                            *)
FairSpec == Spec /\ \A c \in Calls : WF_vars(Proceeds(c))
-----------------------------------------------------------------------------
(* GenericHandler: a call that ran beside no other returns its own outcome,   *)
(* whatever earlier calls left in err, res and param: an error about itself,  *)
(* or data the service answered to its own parameter.  (Beside another one,   *)
(* it may return the other's: the variables are the closure's.)              *)
OwnAnswerUnlessOverlapped ==
    \A c \in Proxied :
        pc[c] = "done" /\ ~overlapped[c] =>
            /\ result[c].error \in {c, None}
            /\ result[c].out \in {c, Zero}
            /\ result[c].out = c => at[c] = "answered" /\ sent[c] = c

(* getResponse: an error that arrives without a Response around it (the       *)
(* ErrorModel of a routine, the bare status of a panic) is never a success to  *)
(* the client, and the routine that forwarded the request fails as well.      *)
BareErrorsStayErrors ==
    \A c \in Calls :
        /\ reply[c] # None /\ ~reply[c].error
        /\ answer[c] # None /\ answer[c].shape \in {"bare", "empty"}
        => /\ ~reply[c].success
           /\ c \in Proxied /\ pc[c] = "done" /\ ~overlapped[c] => result[c].error = c

(* WithUser: behind a guard a routine runs only for a user who came with a     *)
(* token of a session that is or was theirs, the client's own or one in the    *)
(* request, wherever the token was found.                                   *)
OnlyVerifiedAreServed ==
    \A c \in Calls :
        served[c] # None /\ request[c].guarded =>
            /\ served[c].user \in 1 .. session
            /\ served[c].user \in carried[c].auth \cup {carried[c].params.token} \cup
                                   {request[d].token : d \in {sent[c]} \cap Calls}

(* ListRequest: a list is read from an offset and for a number of rows that     *)
(* make sense, int32 arithmetic or not; the page asked for is the page read     *)
(* when its offset fits an int32, and metadata names a page that holds it.      *)
OffsetServedIsUsable ==
    \A c \in Calls :
        served[c] # None /\ request[c].route \in {"list", "one"} =>
            LET q == carried[c].params
            IN  /\ served[c].offset \in 0 .. MaxInt /\ served[c].limit \in 1 .. MaxInt
                /\ /\ q.page # None /\ q.page \in 1 .. MaxInt /\ q.offset \in {None, 0}
                   /\ served[c].limit * (q.page - 1) <= MaxInt
                   => served[c].offset = served[c].limit * (q.page - 1)
                /\ answer[c] # None /\ answer[c].page # 0 =>
                     /\ served[c].limit * (answer[c].page - 1) <= served[c].offset
                     /\ served[c].offset < served[c].limit * answer[c].page

(* A client that was just made sends nothing that another one was given: no    *)
(* token, no parameter, and one request id, under which the service logs it.   *)
(* (One that is kept sends what its earlier requests left, too.)             *)
NewClientsAreClean ==
    \A c \in Proxied :
        /\ carried[c].ids \subseteq {c} /\ logged[c] \in {c, None}
        /\ carried[c].auth = {}
        /\ carried[c].params = Unset

(* Every call that starts returns, though the service may never answer: calls   *)
(* are finite in number, so again and again none of them is under way.        *)
CallsReturn == []<>(\A c \in Calls : ~Running(c))
=============================================================================
