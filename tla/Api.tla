-------------------------------- MODULE Api ---------------------------------
(***************************************************************************)
(* api: the chain of gin handlers a request passes in a service.  First     *)
(* JSONLogMiddleware, then WithUser where the route is guarded, then the     *)
(* route's own handler, which loads and validates a parameter, runs the     *)
(* service routine and writes the answer.  Each handler is one action, for   *)
(* a request has a context of its own and nobody else sees it.              *)
(*                                                                         *)
(* External: the routine behind a route, which answers data or an error;     *)
(* and the session service, which accepts the token of the current session   *)
(* (Session models when).                                                   *)
(***************************************************************************)
EXTENDS Integers

CONSTANTS
    Calls,         \* calls of clients, and so requests
    Numbers,       \* values of limit, offset and page in a query string
    MaxInt,        \* the largest int32
    DefaultLimit,  \* 20 in the code
    MaxTokens,     \* bound: tokens a session has, one after the other
    None

Tokens == 1 .. MaxTokens
Forged == 0        \* a token the session service did not sign
Basic  == -1       \* an Authorization of another scheme

(* basic: BasicHandler.  body: ParamHandlerWithResponse of a RequestModal.   *)
(* list: ParamHandlerWithListResponse of a ListRequest.  one: its variant    *)
(* with an identifier, ParamHandlerWithResponse of a ListRequestWithID.      *)
Routes  == {"basic", "body", "list", "one"}
Schemes == {"none", "session", "basic", "query", "body"}
Bodies  == {"none", "valid", "invalid", "malformed", "unencodable"}

(* The parameters of a query string.                                        *)
Params == [limit : Numbers \cup {None}, offset : Numbers \cup {None},
           page : Numbers \cup {None}, token : Tokens \cup {Forged, None}]

Unset == [limit |-> None, offset |-> None, page |-> None, token |-> None]

(* What a caller asks for, and how it authenticates.                        *)
Request ==
    [route : Routes, guarded : BOOLEAN, url : {"ok", "bad", "none"}, scheme : Schemes,
     token : Tokens \cup {Forged}, body : Bodies, id : BOOLEAN, params : Params]

(* A parameter with nothing in it: the zero value, or null in JSON.          *)
Blank == "blank"

ASSUME ApiAssumption ==
    /\ Numbers \subseteq Int
    /\ MaxInt \in Nat \ {0} /\ DefaultLimit \in 1 .. MaxInt /\ MaxTokens \in Nat \ {0}
    /\ None \notin Calls \cup Int \cup {Blank} /\ Blank \notin Calls

VARIABLES
    session,   \* the token of the callers' session, the only one accepted now
    request,   \* what each call asks for
    sent,      \* whose parameter its body is made of, None for no body
    carried,   \* what it was sent with: ids, Authorizations, and parameters
    at,        \* where its request is: none, wire, guard, route or answered
    logged,    \* the X-REQUEST-ID the service logs it under
    bodyRead,  \* its body was consumed
    user,      \* ContextAuthUserKey: the token it was let in with
    served,    \* limit, offset and user the routine was run with (history)
    answer     \* what the service wrote

wire    == <<session, request, sent, carried>>
service == <<at, logged, bodyRead, user, served, answer>>

Headers == [ids : SUBSET Calls, auth : SUBSET (Tokens \cup {Basic}), params : Params]
Shapes  == {"data", "wrapped", "bare", "text", "empty"}
Answers == [status : {200, 400, 401, 404, 500}, shape : Shapes,
            data : Calls \cup {None}, page : Nat]
Served  == [user : Tokens \cup {Forged, None}, limit : Int, offset : Int]

ApiTypeOK ==
    /\ session \in Tokens
    /\ request \in [Calls -> Request \cup {None}]
    /\ sent \in [Calls -> Calls \cup {Blank, None}]
    /\ carried \in [Calls -> Headers]
    /\ at \in [Calls -> {"none", "wire", "guard", "route", "answered"}]
    /\ logged \in [Calls -> Calls \cup {None}]
    /\ bodyRead \in [Calls -> BOOLEAN]
    /\ user \in [Calls -> Tokens \cup {Forged, None}]
    /\ served \in [Calls -> Served \cup {None}]
    /\ answer \in [Calls -> Answers \cup {None}]

ApiInit ==
    /\ session = 1
    /\ request = [c \in Calls |-> None]
    /\ sent = [c \in Calls |-> None]
    /\ carried = [c \in Calls |-> [ids |-> {}, auth |-> {}, params |-> Unset]]
    /\ at = [c \in Calls |-> "none"]
    /\ logged = [c \in Calls |-> None]
    /\ bodyRead = [c \in Calls |-> FALSE]
    /\ user = [c \in Calls |-> None]
    /\ served = [c \in Calls |-> None]
    /\ answer = [c \in Calls |-> None]
-----------------------------------------------------------------------------
(* An answer: its status, the form of its body, and what it carries.  data:   *)
(* a Response with data.  wrapped: a Response with an error.  bare: an        *)
(* ErrorModel.  text: a gin.Error.  empty: no body.                         *)
Answer(status, shape) == [status |-> status, shape |-> shape, data |-> None, page |-> 0]

DataResponse(data, page) == [status |-> 200, shape |-> "data", data |-> data, page |-> page]
ErrorResponse(status)    == Answer(status, "wrapped")

(* The status of an error: RequestLoadError and ValidatorError, ServiceError  *)
(* and ServiceErrorUnauthorised, NotFoundError, GeneralError and SQLError.    *)
Http(error) ==
    CASE error \in {"load", "validator"} -> 400
      [] error \in {"service", "unauthorised"} -> 401
      [] error = "notFound" -> 404
      [] error \in {"general", "sql"} -> 500

(* The error a routine makes of the outcome of its query.                    *)
SqlQueryError(outcome) == IF outcome = "noRows" THEN "notFound" ELSE "sql"

RoutineErrors == {"load", "service", "unauthorised", "general"} \cup
                 {SqlQueryError(o) : o \in {"noRows", "failed"}}

(* panic in a handler: gin.Recovery aborts with a status and no body.         *)
Recovered == Answer(500, "empty")
-----------------------------------------------------------------------------
(* int32 arithmetic.                                                        *)
Int32(n) == ((n + MaxInt + 1) % (2 * (MaxInt + 1))) - (MaxInt + 1)

(* RequestModal.Query and Value.Int, cut to an int32.                       *)
QueryInt(value, default) == Int32(IF value = None THEN default ELSE value)

(* ListRequest.RequestLoad: a page is an offset when no offset is given.     *)
ListParam(query) ==
    LET limit  == QueryInt(query.limit, DefaultLimit)
        offset == QueryInt(query.offset, 0)
        page   == QueryInt(query.page, 1)
    IN  [limit  |-> limit,
         offset |-> IF page > 1 /\ offset = 0 THEN Int32(limit * Int32(page - 1)) ELSE offset]

(* Slip: an offset may be anything.                                         *)
ValidListAnyOffset(p) == p.limit >= 1

(* The validate tags of ListRequest.                                        *)
ValidList(p) == p.limit >= 1 /\ p.offset >= 0

(* ListRequest.Metadata.                                                    *)
Page(p) == IF p.offset > 0 /\ p.limit > 0 THEN p.offset \div p.limit + 1 ELSE 0

(* The body that arrives is made of the parameter of some call.              *)
Body(c) ==
    CASE sent[c] = None  -> "malformed"
      [] sent[c] = Blank -> "invalid"
      [] OTHER           -> request[sent[c]].body

(* RequestLoad answers a parameter: there is a body to decode, or a user the  *)
(* list is for, and an identifier in the path.                              *)
RequestLoads(c) ==
    CASE request[c].route = "body" -> ~bodyRead[c] /\ Body(c) # "malformed"
      [] request[c].route = "list" -> user[c] # None
      [] request[c].route = "one"  -> user[c] # None /\ request[c].id
      [] OTHER -> TRUE

Validates(c) ==
    CASE request[c].route = "body" -> Body(c) = "valid"
      [] request[c].route \in {"list", "one"} -> ValidList(ListParam(carried[c].params))
      [] OTHER -> TRUE

LoadParamFromRequest(c) == RequestLoads(c) /\ Validates(c)
-----------------------------------------------------------------------------
(* JSONLogMiddleware before Next: of several values of a header, the first.  *)
Receive(c) ==
    /\ at[c] = "wire"
    /\ \E i \in carried[c].ids : logged' = [logged EXCEPT ![c] = i]
    /\ at' = [at EXCEPT ![c] = IF request[c].guarded THEN "guard" ELSE "route"]
    /\ UNCHANGED <<wire, bodyRead, user, served, answer>>

Writes(c, a) ==
    /\ answer' = [answer EXCEPT ![c] = a]
    /\ at' = [at EXCEPT ![c] = "answered"]

(* VerifyTokenRequest.RequestLoad: a token in a header goes before one in the *)
(* query and that before one in the body, which is consumed to find it.       *)
FromHeader(c) == carried[c].auth # {}
FromQuery(c)  == ~FromHeader(c) /\ carried[c].params.token # None
FromBody(c)   == ~FromHeader(c) /\ ~FromQuery(c)

TokensOf(c) ==
    IF FromHeader(c) THEN carried[c].auth
    ELSE IF FromQuery(c) THEN {carried[c].params.token}
    ELSE IF sent[c] \in Calls /\ Body(c) \in {"valid", "invalid"} /\ request[sent[c]].scheme = "body"
         THEN {request[sent[c]].token}
    ELSE {None}

Bearers == Tokens \cup {Forged}

(* Slip: a request that is rejected is answered, and goes on.                *)
WithUserGoesOn(c) ==
    /\ at[c] = "guard"
    /\ bodyRead' = [bodyRead EXCEPT ![c] = FromBody(c)]
    /\ \E t \in TokensOf(c) :
         /\ user' = [user EXCEPT ![c] = IF t \in Bearers THEN t ELSE None]
         /\ at' = [at EXCEPT ![c] = "route"]
    /\ UNCHANGED <<wire, logged, served, answer>>

(* WithUser: no token, another scheme or a token that is not accepted end the *)
(* chain.  The rejection by Verify is an ErrorModel[User] of this package,    *)
(* asserted to be one of the session's user type: that panics.               *)
WithUser(c) ==
    /\ at[c] = "guard"
    /\ bodyRead' = [bodyRead EXCEPT ![c] = FromBody(c)]
    /\ \E t \in TokensOf(c) :
         \/ /\ t \notin Bearers
            /\ Writes(c, ErrorResponse(Http("load")))
            /\ UNCHANGED user
         \/ /\ t \in Bearers /\ t # session
            /\ Writes(c, Recovered)
            /\ UNCHANGED user
         \/ /\ t = session
            /\ user' = [user EXCEPT ![c] = t]
            /\ at' = [at EXCEPT ![c] = "route"]
            /\ UNCHANGED answer
    /\ UNCHANGED <<wire, logged, served>>

(* The parameter is refused: serviceHandlerWithParam answers a Response.     *)
Refuse(c) ==
    /\ at[c] = "route"
    /\ ~LoadParamFromRequest(c)
    /\ Writes(c, ErrorResponse(Http("load")))
    /\ UNCHANGED <<wire, logged, bodyRead, user, served>>

(* What the routine finds in the context.                                   *)
Runs(c) ==
    LET p == IF request[c].route \in {"list", "one"} THEN ListParam(carried[c].params)
             ELSE [limit |-> 0, offset |-> 0]
    IN  served' = [served EXCEPT ![c] = [user |-> user[c], limit |-> p.limit, offset |-> p.offset]]

(* The routine answers data.  ListRequest.DefaultMetadata stores metadata     *)
(* under the key of ListRequest, where only the handler of a list looks.      *)
Succeed(c) ==
    /\ at[c] = "route"
    /\ LoadParamFromRequest(c)
    /\ Runs(c)
    /\ Writes(c, DataResponse(IF request[c].route = "body" THEN sent[c] ELSE c,
                              IF request[c].route = "list" THEN Page(ListParam(carried[c].params))
                              ELSE 0))
    /\ UNCHANGED <<wire, logged, bodyRead, user>>

(* The routine answers an error: BasicHandler writes 500 and a gin.Error      *)
(* whatever it is; the others write its status and the bare ErrorModel.       *)
Fail(c) ==
    /\ at[c] = "route"
    /\ LoadParamFromRequest(c)
    /\ Runs(c)
    /\ \E e \in RoutineErrors :
         Writes(c, IF request[c].route = "basic" THEN Answer(500, "text")
                   ELSE Answer(Http(e), "bare"))
    /\ UNCHANGED <<wire, logged, bodyRead, user>>

Serve(c) == Receive(c) \/ WithUser(c) \/ Refuse(c) \/ Succeed(c) \/ Fail(c)
=============================================================================
